---------------------------- MODULE Spec2Model ----------------------------
(***************************************************************************)
(* The genesis registry of blockchain/genesis/genesis.go: the Genesis      *)
(* record and its defaults, New, the height gates, BlockGasLimitByHeight,  *)
(* Genesis.Hash, Account.InitBalances, Account.IsDeployerWhitelisted, the  *)
(* address and amount accessors (specification Spec), and the process-wide *)
(* genesis timestamp with its goroutines (specification SpecTs).           *)
(*                                                                         *)
(* Representation.  A Go string is a TLA+ string; its bytes are read with  *)
(* SubSeq and ordered by Ord.  A uint64 is a natural number; integers in   *)
(* TLC end at 2^31-1, so MaxUint64 stands for the top of the uint64 range  *)
(* (no arithmetic is done on heights, only comparisons) and a              *)
(* time.Duration is counted in seconds.  A *big.Int is a sign and a string *)
(* of decimal digits without leading zeros, so amounts of any size are     *)
(* exact.  A Go map is a function; ranging over it yields its keys in an   *)
(* order chosen nondeterministically.                                      *)
(***************************************************************************)
EXTENDS Integers, Sequences, FiniteSets, TLC

VARIABLES
    g,              \* the Genesis record of the node
    loaded,         \* TRUE once New has returned g
    height,         \* the height the block pipeline is working at
    call,           \* the last completed call: [op, arg, ret]
    genesisTs,      \* _genesisTs, an int64 held as its two 32-bit halves
    loadGenesisTs,  \* _loadGenesisTs, the sync.Once: [done, m]
    wordSize,       \* the machine word of the build, in bits
    routine,        \* each goroutine's place in SetGenesisTimestamp
    hist            \* what the callers of the timestamp have seen so far

\* the state of the genesis record and its callers
genVars == <<g, loaded, height, call>>

\* the state of the process-wide genesis timestamp and its callers
tsVars == <<genesisTs, loadGenesisTs, wordSize, routine, hist>>

vars == <<g, loaded, height, call, genesisTs, loadGenesisTs, wordSize, routine, hist>>

---------------------------------------------------------------------------
(* Bounds of the model *)

\* fork heights and query heights range over 0..MaxHeight (and the top value)
MaxHeight == 3
\* largest initial-balance table an override document supplies
MaxBalances == 3
\* longest delegate list an override document supplies
MaxDelegates == 2

\* math.MaxUint64, the top of the height range (see Representation)
MaxUint64 == 2147483647

---------------------------------------------------------------------------
(* Go strings *)

\* the bytes that occur in the model's strings, in ascending byte order
Alphabet == "+-0123456789abcdefghijklmnopqrstuvwxyz"

Char(s, i) == SubSeq(s, i, i)

\* the rank of each byte of the alphabet
OrdTable ==
    [c \in {Char(Alphabet, i) : i \in 1..Len(Alphabet)} |->
        CHOOSE i \in 1..Len(Alphabet) : Char(Alphabet, i) = c]

Ord(c) == OrdTable[c]

RECURSIVE StrLessFrom(_, _, _)
StrLessFrom(a, b, i) ==
    IF i > Len(a) THEN i <= Len(b)
    ELSE IF i > Len(b) THEN FALSE
    ELSE IF Char(a, i) # Char(b, i) THEN Ord(Char(a, i)) < Ord(Char(b, i))
    ELSE StrLessFrom(a, b, i + 1)

\* a < b on Go strings: bytewise lexicographic, a proper prefix is smaller
StrLess(a, b) == StrLessFrom(a, b, 1)

RECURSIVE InsertSorted(_, _)
InsertSorted(x, s) ==
    IF s = <<>> THEN <<x>>
    ELSE IF StrLess(x, Head(s)) THEN <<x>> \o s
    ELSE <<Head(s)>> \o InsertSorted(x, Tail(s))

RECURSIVE SortStrings(_)
\* sort.Strings: the strings of s in ascending order
SortStrings(s) ==
    IF s = <<>> THEN <<>>
    ELSE InsertSorted(s[Len(s)], SortStrings(SubSeq(s, 1, Len(s) - 1)))

---------------------------------------------------------------------------
(* big.Int *)

Digits == {"0", "1", "2", "3", "4", "5", "6", "7", "8", "9"}

IsDigits(s) == Len(s) > 0 /\ \A i \in 1..Len(s) : Char(s, i) \in Digits

RECURSIVE StripZeros(_)
StripZeros(s) ==
    IF Len(s) > 1 /\ Char(s, 1) = "0" THEN StripZeros(SubSeq(s, 2, Len(s)))
    ELSE s

\* SetString taking a string it cannot read for zero
SetStringLenient(s) ==
    LET signed == Len(s) > 0 /\ Char(s, 1) \in {"+", "-"}
        body   == IF signed THEN SubSeq(s, 2, Len(s)) ELSE s
    IN  IF IsDigits(body)
        THEN [ok  |-> TRUE,
              mag |-> StripZeros(body),
              neg |-> signed /\ Char(s, 1) = "-" /\ StripZeros(body) # "0"]
        ELSE [ok |-> TRUE, mag |-> "0", neg |-> FALSE]

\* new(big.Int).SetString(s, 10): an optional sign, then one or more decimal
\* digits and nothing else; ok is FALSE otherwise
SetString(s) ==
    LET signed == Len(s) > 0 /\ Char(s, 1) \in {"+", "-"}
        body   == IF signed THEN SubSeq(s, 2, Len(s)) ELSE s
    IN  IF IsDigits(body)
        THEN [ok  |-> TRUE,
              mag |-> StripZeros(body),
              neg |-> signed /\ Char(s, 1) = "-" /\ StripZeros(body) # "0"]
        ELSE [ok |-> FALSE]

---------------------------------------------------------------------------
(* addresses *)

\* The native (io1...) address strings the model knows to be well formed,
\* each with the 20-byte account it encodes (in hex): the 28 addresses of
\* defaultInitBalanceMap and the native form of the default whitelist entry.
KnownAddrs ==
    <<
        <<"io1uqhmnttmv0pg8prugxxn7d8ex9angrvfjfthxa", "e02fb9ad7b63c283847c418d3f34f9317b340d89">>,
        <<"io1v3gkc49d5vwtdfdka2ekjl3h468egun8e43r7z", "64516c54ada31cb6a5b6eab3697e37ae8f947267">>,
        <<"io1vrl48nsdm8jaujccd9cx4ve23cskr0ys6urx92", "60ff53ce0dd9e5de4b1869706ab32a8e2161bc90">>,
        <<"io1llupp3n8q5x8usnr5w08j6hc6hn55x64l46rr7", "fff810c667050c7e4263a39e796af8d5e74a1b55">>,
        <<"io1ns7y0pxmklk8ceattty6n7makpw76u770u5avy", "9c3c4784dbb7ec7c67ab5ac9a9fb7db05ded73de">>,
        <<"io1xuavja5dwde8pvy4yms06yyncad4yavghjhwra", "373ac9768d737270b09526e0fd1093c75b527588">>,
        <<"io1cdqx6p5rquudxuewflfndpcl0l8t5aezen9slr", "c3406d06830738d3732e4fd336871f7fceba7722">>,
        <<"io1hh97f273nhxcq8ajzcpujtt7p9pqyndfmavn9r", "bdcbe4abd19dcd801fb21603c92d7e0942024da9">>,
        <<"io1yhvu38epz5vmkjaclp45a7t08r27slmcc0zjzh", "25d9c89f211519bb4bb8f86b4ef96f38d5e87f78">>,
        <<"io1cl6rl2ev5dfa988qmgzg2x4hfazmp9vn2g66ng", "c7f43fab2ca353d29ce0da04851ab74f45b09593">>,
        <<"io1skmqp33qme8knyw0fzgt9takwrc2nvz4sevk5c", "85b600c620de4f6991cf4890b2afb670f0a9b055">>,
        <<"io1fxzh50pa6qc6x5cprgmgw4qrp5vw97zk5pxt3q", "49857a3c3dd031a353011a368754030d18e2f856">>,
        <<"io1jh0ekmccywfkmj7e8qsuzsupnlk3w5337hjjg2", "95df9b6f1823936dcbd93821c143819fed175231">>,
        <<"io1juvx5g063eu4ts832nukp4vgcwk2gnc5cu9ayd", "97186a21fa8e7955c0f154f960d588c3aca44f14">>,
        <<"io19d0p3ah4g8ww9d7kcxfq87yxe7fnr8rpth5shj", "2b5e18f6f541dce2b7d6c19203f886cf93319c61">>,
        <<"io1ed52svvdun2qv8sf2m0xnynuxfaulv6jlww7ur", "cb68a8318de4d4061e0956de69927c327bcfb352">>,
        <<"io158hyzrmf4a8xll7gfc8xnwlv70jgp44tzy5nvd", "a1ee410f69af4e6fffc84e0e69bbecf3e480d6ab">>,
        <<"io19kshh892255x4h5ularvr3q3al2v8cgl80fqrt", "2da17b9caa55286ade9cff46c1c411efd4c3e11f">>,
        <<"io1ph0u2psnd7muq5xv9623rmxdsxc4uapxhzpg02", "0ddfc506136fb7c050cc2e9511eccd81b15e7426">>,
        <<"io1znka733xefxjjw2wqddegplwtefun0mfdmz7dw", "14eddf4626ca4d29394e035b9407ee5e53c9bf69">>,
        <<"io13sj9mzpewn25ymheukte4v39hvjdtrfp00mlyv", "8c245d883974d5426ef9e5979ab225bb24d58d21">>,
        <<"io14gnqxf9dpkn05g337rl7eyt2nxasphf5m6n0rd", "aa260324ad0da6fa2231f0ffec916a99bb00dd34">>,
        <<"io1l3wc0smczyay8xq747e2hw63mzg3ctp6uf8wsg", "fc5d87c378113a43981eafb2abbb51d8911c2c3a">>,
        <<"io1q4tdrahguffdu4e9j9aj4f38p2nee0r9vlhx7s", "0556d1f6e8e252de5725917b2aa6270aa79cbc65">>,
        <<"io1k9y4a9juk45zaqwvjmhtz6yjc68twqds4qcvzv", "b1495e965cb5682e81cc96eeb16892c68eb701b0">>,
        <<"io15flratm0nhh5xpxz2lznrrpmnwteyd86hxdtj0", "a27e3eaf6f9def4304c257c5318c3b9b979234fa">>,
        <<"io1eq4ehs6xx6zj9gcsax7h3qydwlxut9xcfcjras", "c82b9bc346368522a310e9bd78808d77cdc594d8">>,
        <<"io10a298zmzvrt4guq79a9f4x7qedj59y7ery84he", "7f54538b6260d754701e2f4a9a9bc0cb654293d9">>,
        <<"io18743s33zmsvmvyynfxu5sy2f80e2g5mzk3y5ue", "3fab184622dc19b6109349b94811493bf2a45362">>
    >>

\* the account each well-formed native string decodes to
NativeAddrs ==
    [s \in {KnownAddrs[i][1] : i \in 1..Len(KnownAddrs)} |->
        KnownAddrs[CHOOSE i \in 1..Len(KnownAddrs) : KnownAddrs[i][1] = s][2]]

\* address.FromString: the decoded address (its 20 bytes), or an error for
\* a string that is not a well-formed native address
FromString(s) ==
    IF s \in DOMAIN NativeAddrs
    THEN [err |-> FALSE, addr |-> NativeAddrs[s]]
    ELSE [err |-> TRUE]

\* Address.String(): the native string of a decoded address
AddrString(a) ==
    KnownAddrs[CHOOSE i \in 1..Len(KnownAddrs) : KnownAddrs[i][2] = a][1]

---------------------------------------------------------------------------
(* The Genesis record.  The embedded Blockchain, Account, Poll and         *)
(* Rewarding structs are flattened, as Go promotes their fields.  Fields   *)
(* that no operation of this file reads (the Staking block, the system     *)
(* staking contracts, the probation parameters, the exempt address list)   *)
(* are left out.                                                           *)

\* the 27 fork-activation heights of Blockchain, in release order
ForkFields ==
    <<"PacificBlockHeight", "AleutianBlockHeight", "BeringBlockHeight",
      "CookBlockHeight", "DardanellesBlockHeight", "DaytonaBlockHeight",
      "EasterBlockHeight", "FbkMigrationBlockHeight", "FairbankBlockHeight",
      "GreenlandBlockHeight", "HawaiiBlockHeight", "IcelandBlockHeight",
      "JutlandBlockHeight", "KamchatkaBlockHeight", "LordHoweBlockHeight",
      "MidwayBlockHeight", "NewfoundlandBlockHeight", "OkhotskBlockHeight",
      "PalauBlockHeight", "QuebecBlockHeight", "RedseaBlockHeight",
      "SumatraBlockHeight", "TsunamiBlockHeight", "UpernavikBlockHeight",
      "VanuatuBlockHeight", "WakeBlockHeight", "ToBeEnabledBlockHeight">>

ForkFieldSet == {ForkFields[i] : i \in 1..Len(ForkFields)}

EmptyMap == [k \in {} |-> ""]

defaultConfig ==
    [ \* Blockchain
      Timestamp                 |-> 1553558500,
      BlockGasLimit             |-> 20000000,
      TsunamiBlockGasLimit      |-> 50000000,
      WakeBlockGasLimit         |-> 25000000,
      ActionGasLimit            |-> 5000000,
      BlockInterval             |-> 10,
      NumSubEpochs              |-> 15,
      DardanellesNumSubEpochs   |-> 30,
      WakeNumSubEpochs          |-> 60,
      NumDelegates              |-> 24,
      NumCandidateDelegates     |-> 36,
      TimeBasedRotation         |-> TRUE,
      MinBlocksForBlobRetention |-> 345600,
      PacificBlockHeight        |-> 432001,
      AleutianBlockHeight       |-> 864001,
      BeringBlockHeight         |-> 1512001,
      CookBlockHeight           |-> 1641601,
      DardanellesBlockHeight    |-> 1816201,
      DaytonaBlockHeight        |-> 3238921,
      EasterBlockHeight         |-> 4478761,
      FbkMigrationBlockHeight   |-> 5157001,
      FairbankBlockHeight       |-> 5165641,
      GreenlandBlockHeight      |-> 6544441,
      HawaiiBlockHeight         |-> 11267641,
      IcelandBlockHeight        |-> 12289321,
      JutlandBlockHeight        |-> 13685401,
      KamchatkaBlockHeight      |-> 13816441,
      LordHoweBlockHeight       |-> 13979161,
      MidwayBlockHeight         |-> 16509241,
      NewfoundlandBlockHeight   |-> 17662681,
      OkhotskBlockHeight        |-> 21542761,
      PalauBlockHeight          |-> 22991401,
      QuebecBlockHeight         |-> 24838201,
      RedseaBlockHeight         |-> 26704441,
      SumatraBlockHeight        |-> 28516681,
      TsunamiBlockHeight        |-> 29275561,
      UpernavikBlockHeight      |-> 31174201,
      VanuatuBlockHeight        |-> 33730921,
      WakeBlockHeight           |-> 36893881,
      ToBeEnabledBlockHeight    |-> MaxUint64,
      \* Account
      InitBalanceMap            |-> EmptyMap,
      ReplayDeployerWhitelist   |-> <<"0x3fab184622dc19b6109349b94811493bf2a45362">>,
      \* Poll
      PollMode                  |-> "nativeMix",
      EnableGravityChainVoting  |-> TRUE,
      GravityChainCeilingHeight |-> 10199000,
      VoteThreshold             |-> "100000000000000000000",
      StakingContractAddress    |-> "0x87c9dbff0016af23f5b1ab9b8e072124ab729193",
      SelfStakingThreshold      |-> "1200000000000000000000000",
      ScoreThreshold            |-> "2000000000000000000000000",
      RegisterContractAddress   |-> "0x95724986563028deb58f15c5fac19fa09304f32d",
      GravityChainStartHeight   |-> 7614500,
      GravityChainHeightInterval |-> 100,
      Delegates                 |-> <<>>,
      \* Rewarding (unit.ConvertIotxToRau(n) is n * 10^18)
      InitBalanceStr            |-> "200000000000000000000000000",
      BlockRewardStr            |-> "16000000000000000000",
      DardanellesBlockRewardStr |-> "8000000000000000000",
      EpochRewardStr            |-> "12500000000000000000000",
      AleutianEpochRewardStr    |-> "18750000000000000000000",
      NumDelegatesForEpochReward |-> 100,
      FoundationBonusStr        |-> "80000000000000000000",
      NumDelegatesForFoundationBonus |-> 36,
      FoundationBonusLastEpoch  |-> 8760,
      FoundationBonusP2StartEpoch |-> 9698,
      FoundationBonusP2EndEpoch |-> 18458,
      ProductivityThreshold     |-> 85,
      WakeBlockRewardStr        |-> "4000000000000000000" ]

\* the 28 seed accounts, in the order they are written in the source
defaultInitBalanceMap ==
    [k \in {KnownAddrs[i][1] : i \in 1..28} |->
        IF k = "io1uqhmnttmv0pg8prugxxn7d8ex9angrvfjfthxa"
        THEN "9800000000000000000000000000"
        ELSE "100000000000000000000000000"]

---------------------------------------------------------------------------
(* Go maps *)

\* m[k] = v
MapSet(m, k, v) == [x \in DOMAIN m \cup {k} |-> IF x = k THEN v ELSE m[x]]

RECURSIVE BuildMap(_)
\* the map made by inserting the pairs of ins, first to last, into an empty map
BuildMap(ins) ==
    IF ins = <<>> THEN EmptyMap
    ELSE LET last == ins[Len(ins)]
         IN  MapSet(BuildMap(SubSeq(ins, 1, Len(ins) - 1)), last[1], last[2])

\* all sequences that list every element of S once
Perms(S) ==
    {p \in [1..Cardinality(S) -> S] : \A i, j \in DOMAIN p : i # j => p[i] # p[j]}

Reverse(s) == [i \in 1..Len(s) |-> s[Len(s) + 1 - i]]

Rotate(s, k) == [i \in 1..Len(s) |-> s[((i + k - 1) % Len(s)) + 1]]

RECURSIVE SetToSeq(_)
\* some sequence that lists every element of S once
SetToSeq(S) ==
    IF S = {} THEN <<>>
    ELSE LET x == CHOOSE y \in S : TRUE IN <<x>> \o SetToSeq(S \ {x})

\* The orders in which `for k := range m` can yield the keys of m: every
\* order for a table of up to MaxBalances keys; for a larger table (the
\* seed table) the enumeration is cut to four orders.
RangeOrders(m) ==
    IF Cardinality(DOMAIN m) <= MaxBalances THEN Perms(DOMAIN m)
    ELSE LET s == SetToSeq(DOMAIN m)
         IN  {s, Reverse(s), Rotate(s, 1), Rotate(Reverse(s), 5)}

---------------------------------------------------------------------------
(* The gates *)

\* isPost with the activation height excluded
isPostExclusive(targetHeight, h) == h > targetHeight

\* isPost with the comparison turned round
isPostInverted(targetHeight, h) == h <= targetHeight

isPost(targetHeight, h) == h >= targetHeight

IsPacific(bc, h) == isPost(bc.PacificBlockHeight, h)
IsAleutian(bc, h) == isPost(bc.AleutianBlockHeight, h)
IsBering(bc, h) == isPost(bc.BeringBlockHeight, h)
IsCook(bc, h) == isPost(bc.CookBlockHeight, h)
IsDardanelles(bc, h) == isPost(bc.DardanellesBlockHeight, h)
IsDaytona(bc, h) == isPost(bc.DaytonaBlockHeight, h)
IsEaster(bc, h) == isPost(bc.EasterBlockHeight, h)
IsFairbank(bc, h) == isPost(bc.FairbankBlockHeight, h)
IsFbkMigration(bc, h) == isPost(bc.FbkMigrationBlockHeight, h)
IsGreenland(bc, h) == isPost(bc.GreenlandBlockHeight, h)
IsHawaii(bc, h) == isPost(bc.HawaiiBlockHeight, h)
\* IsIceland left comparing with the height of an earlier fork
IsIcelandAtGreenland(bc, h) == isPost(bc.GreenlandBlockHeight, h)

IsIceland(bc, h) == isPost(bc.IcelandBlockHeight, h)
IsJutland(bc, h) == isPost(bc.JutlandBlockHeight, h)
IsKamchatka(bc, h) == isPost(bc.KamchatkaBlockHeight, h)
IsLordHowe(bc, h) == isPost(bc.LordHoweBlockHeight, h)
IsMidway(bc, h) == isPost(bc.MidwayBlockHeight, h)
IsNewfoundland(bc, h) == isPost(bc.NewfoundlandBlockHeight, h)
IsOkhotsk(bc, h) == isPost(bc.OkhotskBlockHeight, h)
IsPalau(bc, h) == isPost(bc.PalauBlockHeight, h)
IsQuebec(bc, h) == isPost(bc.QuebecBlockHeight, h)
IsRedsea(bc, h) == isPost(bc.RedseaBlockHeight, h)
IsSumatra(bc, h) == isPost(bc.SumatraBlockHeight, h)
IsTsunami(bc, h) == isPost(bc.TsunamiBlockHeight, h)
IsUpernavik(bc, h) == isPost(bc.UpernavikBlockHeight, h)
IsVanuatu(bc, h) == isPost(bc.VanuatuBlockHeight, h)
IsWake(bc, h) == isPost(bc.WakeBlockHeight, h)
\* IsToBeEnabled left comparing with the height of the gate it was copied from
IsToBeEnabledAtVanuatu(bc, h) == isPost(bc.VanuatuBlockHeight, h)

IsToBeEnabled(bc, h) == isPost(bc.ToBeEnabledBlockHeight, h)

\* the gate methods, in the order the source defines them
GateNames ==
    {
      "IsPacific", "IsAleutian", "IsBering", "IsCook", "IsDardanelles",
      "IsDaytona", "IsEaster", "IsFairbank", "IsFbkMigration",
      "IsGreenland", "IsHawaii", "IsIceland", "IsJutland",
      "IsKamchatka", "IsLordHowe", "IsMidway", "IsNewfoundland",
      "IsOkhotsk", "IsPalau", "IsQuebec", "IsRedsea", "IsSumatra",
      "IsTsunami", "IsUpernavik", "IsVanuatu", "IsWake", "IsToBeEnabled" }

\* the result of the gate method called name: bc.<name>(h)
Gate(name, bc, h) ==
    CASE name = "IsPacific" -> IsPacific(bc, h)
      [] name = "IsAleutian" -> IsAleutian(bc, h)
      [] name = "IsBering" -> IsBering(bc, h)
      [] name = "IsCook" -> IsCook(bc, h)
      [] name = "IsDardanelles" -> IsDardanelles(bc, h)
      [] name = "IsDaytona" -> IsDaytona(bc, h)
      [] name = "IsEaster" -> IsEaster(bc, h)
      [] name = "IsFairbank" -> IsFairbank(bc, h)
      [] name = "IsFbkMigration" -> IsFbkMigration(bc, h)
      [] name = "IsGreenland" -> IsGreenland(bc, h)
      [] name = "IsHawaii" -> IsHawaii(bc, h)
      [] name = "IsIceland" -> IsIceland(bc, h)
      [] name = "IsJutland" -> IsJutland(bc, h)
      [] name = "IsKamchatka" -> IsKamchatka(bc, h)
      [] name = "IsLordHowe" -> IsLordHowe(bc, h)
      [] name = "IsMidway" -> IsMidway(bc, h)
      [] name = "IsNewfoundland" -> IsNewfoundland(bc, h)
      [] name = "IsOkhotsk" -> IsOkhotsk(bc, h)
      [] name = "IsPalau" -> IsPalau(bc, h)
      [] name = "IsQuebec" -> IsQuebec(bc, h)
      [] name = "IsRedsea" -> IsRedsea(bc, h)
      [] name = "IsSumatra" -> IsSumatra(bc, h)
      [] name = "IsTsunami" -> IsTsunami(bc, h)
      [] name = "IsUpernavik" -> IsUpernavik(bc, h)
      [] name = "IsVanuatu" -> IsVanuatu(bc, h)
      [] name = "IsWake" -> IsWake(bc, h)
      [] name = "IsToBeEnabled" -> IsToBeEnabled(bc, h)

\* BlockGasLimitByHeight with the eras tried oldest first
BlockGasLimitOldestFirst(bc, h) ==
    IF ~isPost(bc.TsunamiBlockHeight, h) THEN bc.BlockGasLimit
    ELSE IF ~isPost(bc.WakeBlockHeight, h) THEN bc.TsunamiBlockGasLimit
    ELSE bc.WakeBlockGasLimit

\* BlockGasLimitByHeight as it was before the Wake era was added
BlockGasLimitWithoutWake(bc, h) ==
    IF isPost(bc.TsunamiBlockHeight, h) THEN bc.TsunamiBlockGasLimit
    ELSE bc.BlockGasLimit

\* BlockGasLimitByHeight returns the block gas limit by height
BlockGasLimitByHeight(bc, h) ==
    IF isPost(bc.WakeBlockHeight, h) THEN bc.WakeBlockGasLimit
    ELSE IF isPost(bc.TsunamiBlockHeight, h) THEN bc.TsunamiBlockGasLimit
    ELSE bc.BlockGasLimit

---------------------------------------------------------------------------
(* Genesis.Hash *)

\* GenesisBlockchainProto committing the gas limit in force at genesis
GenesisBlockchainProtoLimitInForce(gen) ==
    [Timestamp             |-> gen.Timestamp,
     BlockGasLimit         |-> BlockGasLimitByHeight(gen, 0),
     ActionGasLimit        |-> gen.ActionGasLimit,
     BlockInterval         |-> gen.BlockInterval,
     NumSubEpochs          |-> gen.NumSubEpochs,
     NumDelegates          |-> gen.NumDelegates,
     NumCandidateDelegates |-> gen.NumCandidateDelegates,
     TimeBasedRotation     |-> gen.TimeBasedRotation]

GenesisBlockchainProto(gen) ==
    [Timestamp             |-> gen.Timestamp,
     BlockGasLimit         |-> gen.BlockGasLimit,
     ActionGasLimit        |-> gen.ActionGasLimit,
     BlockInterval         |-> gen.BlockInterval,
     NumSubEpochs          |-> gen.NumSubEpochs,
     NumDelegates          |-> gen.NumDelegates,
     NumCandidateDelegates |-> gen.NumCandidateDelegates,
     TimeBasedRotation     |-> gen.TimeBasedRotation]

\* HashInitBalanceAddrs without the sort
HashInitBalanceAddrsUnsorted(order) == order

\* HashInitBalanceAddrs sorting in descending order
HashInitBalanceAddrsDescending(order) == Reverse(SortStrings(order))

\* the addresses Hash collects by ranging over the table (in the order
\* `order`) and then sorts
HashInitBalanceAddrs(order) == SortStrings(order)

GenesisAccountProto(gen, order) ==
    LET initBalanceAddrs == HashInitBalanceAddrs(order)
    IN  [InitBalanceAddrs |-> initBalanceAddrs,
         InitBalances     |-> [i \in 1..Len(initBalanceAddrs) |->
                                  gen.InitBalanceMap[initBalanceAddrs[i]]]]

RECURSIVE InsertByOperator(_, _)
InsertByOperator(d, s) ==
    IF s = <<>> THEN <<d>>
    ELSE IF StrLess(d.OperatorAddr, Head(s).OperatorAddr) THEN <<d>> \o s
    ELSE <<Head(s)>> \o InsertByOperator(d, Tail(s))

RECURSIVE SortByOperator(_)
SortByOperator(s) ==
    IF s = <<>> THEN <<>>
    ELSE InsertByOperator(s[Len(s)], SortByOperator(SubSeq(s, 1, Len(s) - 1)))

\* GenesisDelegateProtos putting the delegates in the order of their
\* operator addresses, as is done for the balance table
GenesisDelegateProtosSorted(delegates) ==
    SortByOperator([i \in 1..Len(delegates) |->
        [OperatorAddr |-> delegates[i].OperatorAddrStr,
         RewardAddr   |-> delegates[i].RewardAddrStr,
         Votes        |-> delegates[i].VotesStr]])

GenesisDelegateProtos(delegates) ==
    [i \in 1..Len(delegates) |->
        [OperatorAddr |-> delegates[i].OperatorAddrStr,
         RewardAddr   |-> delegates[i].RewardAddrStr,
         Votes        |-> delegates[i].VotesStr]]

GenesisPollProto(gen) ==
    [EnableGravityChainVoting |-> gen.EnableGravityChainVoting,
     GravityChainStartHeight  |-> gen.GravityChainStartHeight,
     RegisterContractAddress  |-> gen.RegisterContractAddress,
     StakingContractAddress   |-> gen.StakingContractAddress,
     VoteThreshold            |-> gen.VoteThreshold,
     ScoreThreshold           |-> gen.ScoreThreshold,
     SelfStakingThreshold     |-> gen.SelfStakingThreshold,
     Delegates                |-> GenesisDelegateProtos(gen.Delegates)]

\* GenesisRewardingProto leaving ProductivityThreshold unset
GenesisRewardingProtoShort(gen) ==
    [InitBalance                    |-> gen.InitBalanceStr,
     BlockReward                    |-> gen.BlockRewardStr,
     EpochReward                    |-> gen.EpochRewardStr,
     NumDelegatesForEpochReward     |-> gen.NumDelegatesForEpochReward,
     FoundationBonus                |-> gen.FoundationBonusStr,
     NumDelegatesForFoundationBonus |-> gen.NumDelegatesForFoundationBonus,
     FoundationBonusLastEpoch       |-> gen.FoundationBonusLastEpoch,
     ProductivityThreshold          |-> 0]

GenesisRewardingProto(gen) ==
    [InitBalance                    |-> gen.InitBalanceStr,
     BlockReward                    |-> gen.BlockRewardStr,
     EpochReward                    |-> gen.EpochRewardStr,
     NumDelegatesForEpochReward     |-> gen.NumDelegatesForEpochReward,
     FoundationBonus                |-> gen.FoundationBonusStr,
     NumDelegatesForFoundationBonus |-> gen.NumDelegatesForFoundationBonus,
     FoundationBonusLastEpoch       |-> gen.FoundationBonusLastEpoch,
     ProductivityThreshold          |-> gen.ProductivityThreshold]

\* the canonical record gProto that Hash builds
GenesisProto(gen, order) ==
    [Blockchain |-> GenesisBlockchainProto(gen),
     Account    |-> GenesisAccountProto(gen, order),
     Poll       |-> GenesisPollProto(gen),
     Rewarding  |-> GenesisRewardingProto(gen)]

\* proto3 wire form, as the list of the fields written: a scalar field is
\* written unless it holds its zero value, every element of a repeated
\* field is written, and a sub-message that is set is written even if empty
Scalar(tag, v, zero) == IF v = zero THEN <<>> ELSE << <<tag, v>> >>

Repeated(tag, s) == [i \in 1..Len(s) |-> <<tag, s[i]>>]

MarshalBlockchain(m) ==
    Scalar("Timestamp", m.Timestamp, 0)
    \o Scalar("BlockGasLimit", m.BlockGasLimit, 0)
    \o Scalar("ActionGasLimit", m.ActionGasLimit, 0)
    \o Scalar("BlockInterval", m.BlockInterval, 0)
    \o Scalar("NumSubEpochs", m.NumSubEpochs, 0)
    \o Scalar("NumDelegates", m.NumDelegates, 0)
    \o Scalar("NumCandidateDelegates", m.NumCandidateDelegates, 0)
    \o Scalar("TimeBasedRotation", m.TimeBasedRotation, FALSE)

MarshalAccount(m) ==
    Repeated("InitBalanceAddrs", m.InitBalanceAddrs)
    \o Repeated("InitBalances", m.InitBalances)

MarshalDelegate(m) ==
    Scalar("OperatorAddr", m.OperatorAddr, "")
    \o Scalar("RewardAddr", m.RewardAddr, "")
    \o Scalar("Votes", m.Votes, "")

MarshalPoll(m) ==
    Scalar("EnableGravityChainVoting", m.EnableGravityChainVoting, FALSE)
    \o Scalar("GravityChainStartHeight", m.GravityChainStartHeight, 0)
    \o Scalar("RegisterContractAddress", m.RegisterContractAddress, "")
    \o Scalar("StakingContractAddress", m.StakingContractAddress, "")
    \o Scalar("VoteThreshold", m.VoteThreshold, "")
    \o Scalar("ScoreThreshold", m.ScoreThreshold, "")
    \o Scalar("SelfStakingThreshold", m.SelfStakingThreshold, "")
    \o Repeated("Delegates",
                [i \in 1..Len(m.Delegates) |-> MarshalDelegate(m.Delegates[i])])

MarshalRewarding(m) ==
    Scalar("InitBalance", m.InitBalance, "")
    \o Scalar("BlockReward", m.BlockReward, "")
    \o Scalar("EpochReward", m.EpochReward, "")
    \o Scalar("NumDelegatesForEpochReward", m.NumDelegatesForEpochReward, 0)
    \o Scalar("FoundationBonus", m.FoundationBonus, "")
    \o Scalar("NumDelegatesForFoundationBonus", m.NumDelegatesForFoundationBonus, 0)
    \o Scalar("FoundationBonusLastEpoch", m.FoundationBonusLastEpoch, 0)
    \o Scalar("ProductivityThreshold", m.ProductivityThreshold, 0)

\* proto.Marshal(&gProto)
Marshal(m) ==
    << <<"Blockchain", MarshalBlockchain(m.Blockchain)>>,
       <<"Account", MarshalAccount(m.Account)>>,
       <<"Poll", MarshalPoll(m.Poll)>>,
       <<"Rewarding", MarshalRewarding(m.Rewarding)>> >>

\* hash.Hash256b, taken to be collision-free: the digest stands for its bytes
Hash256b(b) == [digest |-> b]

\* Hash committing the deployer allowlist as well
HashWithWhitelist(gen, order) ==
    Hash256b(<<Marshal(GenesisProto(gen, order)), gen.ReplayDeployerWhitelist>>)

\* g.Hash(), when ranging over InitBalanceMap yields its keys in `order`
Hash(gen, order) == Hash256b(Marshal(GenesisProto(gen, order)))

---------------------------------------------------------------------------
(* Account.InitBalances *)

\* InitBalanceAddrStrs without the sort
InitBalanceAddrStrsUnsorted(order) == order

\* the address strings InitBalances collects by ranging over the table (in
\* the order `order`) and then sorts
InitBalanceAddrStrs(order) == SortStrings(order)

\* a.InitBalances(), when ranging over InitBalanceMap yields its keys in
\* `order`: the two sequences, or the panic of the first entry, in sorted
\* order, whose address or amount does not parse
InitBalances(a, order) ==
    LET addrStrs == InitBalanceAddrStrs(order)
        Bad(i)   == \/ FromString(addrStrs[i]).err
                    \/ ~SetString(a.InitBalanceMap[addrStrs[i]]).ok
    IN  IF \E i \in 1..Len(addrStrs) : Bad(i)
        THEN LET i == CHOOSE k \in 1..Len(addrStrs) :
                          Bad(k) /\ \A l \in 1..(k - 1) : ~Bad(l)
             IN  IF FromString(addrStrs[i]).err
                 THEN [panic |-> TRUE,
                       msg   |-> "Error when decoding the account protocol init balance address from string.",
                       str   |-> addrStrs[i]]
                 ELSE [panic |-> TRUE,
                       msg   |-> "Error when casting init balance string %s into big int",
                       str   |-> a.InitBalanceMap[addrStrs[i]]]
        ELSE [panic   |-> FALSE,
              addrs   |-> [i \in 1..Len(addrStrs) |-> FromString(addrStrs[i]).addr],
              amounts |-> [i \in 1..Len(addrStrs) |->
                              SetString(a.InitBalanceMap[addrStrs[i]])]]

---------------------------------------------------------------------------
(* Account.IsDeployerWhitelisted *)

HexLower == "0123456789abcdef"

HexUpper == "0123456789ABCDEF"

\* the hexadecimal digits of either case, each with its place among the 16
HexDigits ==
    [c \in {Char(HexLower, i) : i \in 1..16} \cup {Char(HexUpper, i) : i \in 1..16} |->
        CHOOSE i \in 1..16 : Char(HexLower, i) = c \/ Char(HexUpper, i) = c]

\* the value of a hexadecimal digit, in either case; 0 for any other byte
HexIndex(c) == IF c \in DOMAIN HexDigits THEN HexDigits[c] ELSE 0

\* every byte of s is a hexadecimal digit
IsHex(s) == \A i \in 1..Len(s) : HexIndex(Char(s, i)) > 0

\* s begins with 0x or 0X
Has0xPrefix(s) == Len(s) >= 2 /\ Char(s, 1) = "0" /\ Char(s, 2) \in {"x", "X"}

\* s without its 0x or 0X, when it has one
Strip0x(s) == IF Has0xPrefix(s) THEN SubSeq(s, 3, Len(s)) ELSE s

\* common.IsHexAddress: 40 hexadecimal digits after an optional 0x
IsHexAddress(s) == Len(Strip0x(s)) = 40 /\ IsHex(Strip0x(s))

RECURSIVE DecodeHex(_)
\* hex.DecodeString: the bytes s spells, written in lower-case hex
DecodeHex(s) ==
    IF Len(s) = 0 THEN ""
    ELSE Char(HexLower, HexIndex(Char(s, 1))) \o DecodeHex(SubSeq(s, 2, Len(s)))

\* address.FromHex: the address of the 20 bytes a hex string spells
FromHex(s) ==
    IF Len(Strip0x(s)) = 40 /\ IsHex(Strip0x(s))
    THEN [err |-> FALSE, addr |-> DecodeHex(Strip0x(s))]
    ELSE [err |-> TRUE]

\* address.Equal: the same 20 bytes
Equal(a, b) == a = b

RECURSIVE WhitelistScanStrict(_, _, _)
\* WhitelistScan giving up at the first io1 entry that does not parse
WhitelistScanStrict(list, deployer, i) ==
    IF i > Len(list) THEN [panic |-> FALSE, val |-> FALSE]
    ELSE LET v == list[i]
         IN  IF Len(v) < 3
             THEN [panic |-> TRUE, msg |-> "slice bounds out of range", str |-> v]
             ELSE IF SubSeq(v, 1, 3) = "io1"
             THEN IF FromString(v).err
                  THEN [panic |-> FALSE, val |-> FALSE]
                  ELSE IF Equal(deployer, FromString(v).addr)
                  THEN [panic |-> FALSE, val |-> TRUE]
                  ELSE WhitelistScanStrict(list, deployer, i + 1)
             ELSE IF IsHexAddress(v)
             THEN IF ~FromHex(v).err /\ Equal(deployer, FromHex(v).addr)
                  THEN [panic |-> FALSE, val |-> TRUE]
                  ELSE WhitelistScanStrict(list, deployer, i + 1)
             ELSE WhitelistScanStrict(list, deployer, i + 1)

RECURSIVE WhitelistScan(_, _, _)
\* the loop of IsDeployerWhitelisted from entry i on.  v[:3] of an entry of
\* fewer than 3 bytes is a run-time panic (slice bounds out of range).
WhitelistScan(list, deployer, i) ==
    IF i > Len(list) THEN [panic |-> FALSE, val |-> FALSE]
    ELSE LET v == list[i]
         IN  IF Len(v) < 3
             THEN [panic |-> TRUE, msg |-> "slice bounds out of range", str |-> v]
             ELSE IF SubSeq(v, 1, 3) = "io1"
             THEN IF ~FromString(v).err /\ Equal(deployer, FromString(v).addr)
                  THEN [panic |-> FALSE, val |-> TRUE]
                  ELSE WhitelistScan(list, deployer, i + 1)
             ELSE IF IsHexAddress(v)
             THEN IF ~FromHex(v).err /\ Equal(deployer, FromHex(v).addr)
                  THEN [panic |-> FALSE, val |-> TRUE]
                  ELSE WhitelistScan(list, deployer, i + 1)
             ELSE WhitelistScan(list, deployer, i + 1)

\* a.IsDeployerWhitelisted(deployer)
IsDeployerWhitelisted(a, deployer) ==
    WhitelistScan(a.ReplayDeployerWhitelist, deployer, 1)

---------------------------------------------------------------------------
(* The address and amount accessors.  A call that panics yields the        *)
(* message of the panic and the string the message reports; a call that    *)
(* returns yields its value.                                               *)

\* the nil address.Address
Nil == [nil |-> TRUE]

\* a non-nil address.Address
Addr(a) == [nil |-> FALSE, addr |-> a]

\* log.L().Panic(msg, zap.Error(err)) for the string s that did not decode
PanicDecoding(msg, s) == [panic |-> TRUE, msg |-> msg, str |-> s]

\* log.S().Panicf(format, s)
Panicf(format, s) == [panic |-> TRUE, msg |-> format, str |-> s]

\* a value handed back to the caller
Returns(v) == [panic |-> FALSE, val |-> v]

\* d.OperatorAddr()
OperatorAddr(d) ==
    IF FromString(d.OperatorAddrStr).err
    THEN PanicDecoding("Error when decoding the poll protocol operator address from string.",
                       d.OperatorAddrStr)
    ELSE Returns(Addr(FromString(d.OperatorAddrStr).addr))

\* RewardAddr treating the reward address as required, as OperatorAddr does
RewardAddrRequired(d) ==
    IF FromString(d.RewardAddrStr).err
    THEN PanicDecoding("Error when decoding the poll protocol rewardee address from string.",
                       d.RewardAddrStr)
    ELSE Returns(Addr(FromString(d.RewardAddrStr).addr))

\* d.RewardAddr()
RewardAddr(d) ==
    IF d.RewardAddrStr = "" THEN Returns(Nil)
    ELSE IF FromString(d.RewardAddrStr).err
    THEN PanicDecoding("Error when decoding the poll protocol rewardee address from string.",
                       d.RewardAddrStr)
    ELSE Returns(Addr(FromString(d.RewardAddrStr).addr))

\* d.Votes()
Votes(d) ==
    IF SetString(d.VotesStr).ok THEN Returns(SetString(d.VotesStr))
    ELSE Panicf("Error when casting votes string %s into big int", d.VotesStr)

\* r.InitBalance()
InitBalance(r) ==
    IF SetString(r.InitBalanceStr).ok THEN Returns(SetString(r.InitBalanceStr))
    ELSE Panicf("Error when casting init balance string %s into big int", r.InitBalanceStr)

\* r.BlockReward()
BlockReward(r) ==
    IF SetString(r.BlockRewardStr).ok THEN Returns(SetString(r.BlockRewardStr))
    ELSE Panicf("Error when casting block reward string %s into big int", r.BlockRewardStr)

\* r.EpochReward()
EpochReward(r) ==
    IF SetString(r.EpochRewardStr).ok THEN Returns(SetString(r.EpochRewardStr))
    ELSE Panicf("Error when casting epoch reward string %s into big int", r.EpochRewardStr)

\* r.AleutianEpochReward()
AleutianEpochReward(r) ==
    IF SetString(r.AleutianEpochRewardStr).ok
    THEN Returns(SetString(r.AleutianEpochRewardStr))
    ELSE Panicf("Error when casting epoch reward string %s into big int",
                r.AleutianEpochRewardStr)

\* r.DardanellesBlockReward()
DardanellesBlockReward(r) ==
    IF SetString(r.DardanellesBlockRewardStr).ok
    THEN Returns(SetString(r.DardanellesBlockRewardStr))
    ELSE Panicf("Error when casting block reward string %s into big int",
                r.DardanellesBlockRewardStr)

\* r.WakeBlockReward()
WakeBlockReward(r) ==
    IF SetString(r.WakeBlockRewardStr).ok THEN Returns(SetString(r.WakeBlockRewardStr))
    ELSE Panicf("Error when casting block reward string %s into big int", r.WakeBlockRewardStr)

\* r.FoundationBonus(); the message of its panic is formatted with
\* r.EpochRewardStr
FoundationBonus(r) ==
    IF SetString(r.FoundationBonusStr).ok THEN Returns(SetString(r.FoundationBonusStr))
    ELSE Panicf("Error when casting bootstrap bonus string %s into big int", r.EpochRewardStr)

\* the amount accessors of Rewarding, by name
RewardingAccessors ==
    {"InitBalance", "BlockReward", "EpochReward", "AleutianEpochReward",
     "DardanellesBlockReward", "WakeBlockReward", "FoundationBonus"}

RewardingAmount(name, r) ==
    CASE name = "InitBalance"            -> InitBalance(r)
      [] name = "BlockReward"            -> BlockReward(r)
      [] name = "EpochReward"            -> EpochReward(r)
      [] name = "AleutianEpochReward"    -> AleutianEpochReward(r)
      [] name = "DardanellesBlockReward" -> DardanellesBlockReward(r)
      [] name = "WakeBlockReward"        -> WakeBlockReward(r)
      [] name = "FoundationBonus"        -> FoundationBonus(r)

\* the accessors of Delegate, by name
DelegateAccessors == {"OperatorAddr", "RewardAddr", "Votes"}

DelegateAccessor(name, d) ==
    CASE name = "OperatorAddr" -> OperatorAddr(d)
      [] name = "RewardAddr"   -> RewardAddr(d)
      [] name = "Votes"        -> Votes(d)

---------------------------------------------------------------------------
(* New *)

BoolFields == {"TimeBasedRotation", "EnableGravityChainVoting"}

StrFields ==
    {"PollMode", "VoteThreshold", "StakingContractAddress", "SelfStakingThreshold",
     "ScoreThreshold", "RegisterContractAddress", "InitBalanceStr", "BlockRewardStr",
     "DardanellesBlockRewardStr", "EpochRewardStr", "AleutianEpochRewardStr",
     "FoundationBonusStr", "WakeBlockRewardStr"}

\* Genesis{}: every field holds the zero value of its type
ZeroGenesis ==
    [f \in DOMAIN defaultConfig |->
        IF f \in BoolFields THEN FALSE
        ELSE IF f \in StrFields THEN ""
        ELSE IF f = "InitBalanceMap" THEN EmptyMap
        ELSE IF f \in {"ReplayDeployerWhitelist", "Delegates"} THEN <<>>
        ELSE 0]

\* What yaml.Get(config.Root).Populate(&genesis) leaves in genesis.  doc
\* maps the keys the document sets to their values; its initial-balance
\* table is the list of its (address, amount) pairs in document order.
\* Population starts from defaultConfig (config.Static(def)) and takes
\* every key of the document.
Populate(doc) ==
    [f \in DOMAIN defaultConfig |->
        IF f \in DOMAIN doc
        THEN IF f = "InitBalanceMap" THEN BuildMap(doc[f]) ELSE doc[f]
        ELSE defaultConfig[f]]

\* ReturnedWithError handing out what had been populated so far
ReturnedPartial(populated) == populated

\* the Genesis of `return Genesis{}, errors.Wrap(...)`
ReturnedWithError(populated) == ZeroGenesis

\* SeedTableNeeded for a New that installs the seed table in every genesis
SeedTableAlways(m) == TRUE

\* len(genesis.InitBalanceMap) == 0
SeedTableNeeded(m) == Cardinality(DOMAIN m) = 0

\* YAMLOptions for a New that asks the library to tolerate what does not
\* fit the struct
YAMLOptionsPermissive == {"Static", "File", "Permissive"}

\* the options New hands to config.NewYAML: the defaults and the file
YAMLOptions == {"Static", "File"}

\* go.uber.org/config decodes in the strict mode of yaml.v2, in which a key
\* naming no field of the struct is an error of Populate, unless
\* config.Permissive() is among the options
Strict(opts) == "Permissive" \notin opts

\* New(genesisPath).  file is what genesisPath leads to: yaml says whether
\* config.NewYAML can build a configuration from it ("ok"), doc holds the
\* keys whose values fit their fields, mistyped the keys whose values do
\* not (a word where a number is expected), on which Populate fails, and
\* unknown the keys that name no field of Genesis.
New(file) ==
    IF file.yaml # "ok"
    THEN [genesis |-> ReturnedWithError(defaultConfig),
          err     |-> "error when constructing a genesis in yaml"]
    ELSE IF file.mistyped # {} \/ (Strict(YAMLOptions) /\ file.unknown # {})
    THEN [genesis |-> ReturnedWithError(Populate(file.doc)),
          err     |-> "failed to unmarshal yaml genesis to struct"]
    ELSE LET genesis == Populate(file.doc)
         IN  [genesis |-> IF SeedTableNeeded(genesis.InitBalanceMap)
                          THEN [genesis EXCEPT !.InitBalanceMap = defaultInitBalanceMap]
                          ELSE genesis,
              err     |-> "nil"]

---------------------------------------------------------------------------
(* TestDefault *)

\* identityset.Address(i).String(): the identity set is a fixed list of
\* keys kept outside this package; its addresses are distinct, and the
\* model names them by their index
IdentityAddress(i) == "io1identity" \o ToString(i)

\* unit.ConvertIotxToRau(100000000).String()
TestBalance == "100000000000000000000000000"

\* TestDefaultLoop also listing the identity whose index equals NumDelegates
RECURSIVE TestDefaultLoopInclusive(_, _, _)
TestDefaultLoopInclusive(cfg, i, size) ==
    IF ~(i < size) THEN cfg
    ELSE LET addr   == IdentityAddress(i)
             value  == TestBalance
             funded == [cfg EXCEPT !.InitBalanceMap = MapSet(cfg.InitBalanceMap, addr, value)]
         IN  TestDefaultLoopInclusive(
                 IF i <= funded.NumDelegates
                 THEN [funded EXCEPT !.Delegates =
                          Append(funded.Delegates,
                                 [OperatorAddrStr |-> addr,
                                  RewardAddrStr   |-> addr,
                                  VotesStr        |-> value])]
                 ELSE funded,
                 i + 1, size)

\* the loop of TestDefault from index i on: every identity is given the
\* test balance, and the first NumDelegates of them are listed as delegates
RECURSIVE TestDefaultLoop(_, _, _)
TestDefaultLoop(cfg, i, size) ==
    IF ~(i < size) THEN cfg
    ELSE LET addr   == IdentityAddress(i)
             value  == TestBalance
             funded == [cfg EXCEPT !.InitBalanceMap = MapSet(cfg.InitBalanceMap, addr, value)]
         IN  TestDefaultLoop(
                 IF i < funded.NumDelegates
                 THEN [funded EXCEPT !.Delegates =
                          Append(funded.Delegates,
                                 [OperatorAddrStr |-> addr,
                                  RewardAddrStr   |-> addr,
                                  VotesStr        |-> value])]
                 ELSE funded,
                 i + 1, size)

\* TestDefault(), with an identity set of `size` keys
TestDefault(size) ==
    TestDefaultLoop([defaultConfig EXCEPT !.InitBalanceMap = EmptyMap,
                                          !.NumSubEpochs = 2,
                                          !.Timestamp = 1546329600,
                                          !.TimeBasedRotation = FALSE,
                                          !.PacificBlockHeight = 0,
                                          !.EnableGravityChainVoting = FALSE],
                    0, size)

---------------------------------------------------------------------------
(* The inputs of the model *)

\* the sizes of the identity set: none, one, as many as the default
\* NumDelegates, and one more
IdentitySizes == {0, 1, 24, 25}

\* the values a document gives a fork height
HeightValues == 0..MaxHeight \cup {MaxUint64}

\* the heights the block pipeline works at
Heights == 0..(MaxHeight + 1) \cup {MaxUint64}

\* the fields holding one value (not a table or a list), fork heights aside
ScalarFields ==
    DOMAIN defaultConfig
        \ (ForkFieldSet \cup {"InitBalanceMap", "ReplayDeployerWhitelist", "Delegates"})

\* the values the model gives a scalar field
Values(f) ==
    IF f \in BoolFields THEN BOOLEAN
    ELSE IF f \in StrFields THEN {"", "1", "not-a-number"}
    ELSE {0, 1}

\* addresses and amounts of the tables documents supply: three well-formed
\* addresses and a malformed one, two well-formed amounts and a malformed one
TableAddrs ==
    {"io1uqhmnttmv0pg8prugxxn7d8ex9angrvfjfthxa",
     "io1v3gkc49d5vwtdfdka2ekjl3h468egun8e43r7z",
     "io1llupp3n8q5x8usnr5w08j6hc6hn55x64l46rr7",
     "io1bad"}

TableAmounts == {"1", "007", "not-a-number"}

\* the ways to write a table of up to n entries, keys distinct
RECURSIVE Insertions(_)
Insertions(n) ==
    IF n = 0 THEN {<<>>}
    ELSE LET shorter == Insertions(n - 1)
         IN  shorter \cup
             {Append(ins, <<k, v>>) :
                 ins \in {s \in shorter : Len(s) = n - 1},
                 k \in TableAddrs, v \in TableAmounts}

DistinctKeys(ins) == \A i, j \in 1..Len(ins) : i # j => ins[i][1] # ins[j][1]

\* the delegates documents list: one with all three strings well formed,
\* one without a reward address, one with no string well formed, one whose
\* operator address is malformed
DelegatePool ==
    {[OperatorAddrStr |-> "io1llupp3n8q5x8usnr5w08j6hc6hn55x64l46rr7",
      RewardAddrStr   |-> "io1llupp3n8q5x8usnr5w08j6hc6hn55x64l46rr7",
      VotesStr        |-> "2"],
     [OperatorAddrStr |-> "io1uqhmnttmv0pg8prugxxn7d8ex9angrvfjfthxa",
      RewardAddrStr   |-> "",
      VotesStr        |-> "1"],
     [OperatorAddrStr |-> "",
      RewardAddrStr   |-> "io1bad",
      VotesStr        |-> "not-a-number"],
     [OperatorAddrStr |-> "io1bad",
      RewardAddrStr   |-> "io1v3gkc49d5vwtdfdka2ekjl3h468egun8e43r7z",
      VotesStr        |-> ""]}

RECURSIVE DelegateLists(_)
DelegateLists(n) ==
    IF n = 0 THEN {<<>>}
    ELSE LET shorter == DelegateLists(n - 1)
         IN  shorter \cup
             {Append(ds, d) : ds \in {s \in shorter : Len(s) = n - 1}, d \in DelegatePool}

\* the one-entry table of the documents that are not about the table
BaseTable ==
    "InitBalanceMap" :> << <<"io1v3gkc49d5vwtdfdka2ekjl3h468egun8e43r7z", "1">> >>

\* the longest allowlist a document supplies
MaxWhitelist == 2

\* the entries of the allowlists documents supply: the default entry, the
\* same account in native form, another account in upper-case hex without
\* 0x, a malformed native string, a string that is neither native nor hex,
\* and a string of fewer than 3 bytes
WhitelistEntries ==
    {"0x3fab184622dc19b6109349b94811493bf2a45362",
     "io18743s33zmsvmvyynfxu5sy2f80e2g5mzk3y5ue",
     "64516C54ADA31CB6A5B6EAB3697E37AE8F947267",
     "io1bad",
     "0x3fab",
     ""}

RECURSIVE Whitelists(_)
Whitelists(n) ==
    IF n = 0 THEN {<<>>}
    ELSE LET shorter == Whitelists(n - 1)
         IN  shorter \cup
             {Append(wl, v) : wl \in {s \in shorter : Len(s) = n - 1},
                              v \in WhitelistEntries}

\* the deployers asked about: the account of the default entry, the other
\* account of the allowlists, an account no allowlist names
Deployers ==
    {"3fab184622dc19b6109349b94811493bf2a45362",
     "64516c54ada31cb6a5b6eab3697e37ae8f947267",
     "fff810c667050c7e4263a39e796af8d5e74a1b55"}

\* The override documents: the empty one; a table of up to MaxBalances
\* entries (the empty table included); and, each with the one-entry table,
\* one fork height, the Tsunami and Wake heights together, one scalar, a
\* delegate list, an allowlist.  The seed table is thus carried by the
\* genesis of the documents that supply no table, and by no other.
Docs ==
    {<<>>}
    \cup {"InitBalanceMap" :> ins :
            ins \in {s \in Insertions(MaxBalances) : DistinctKeys(s)}}
    \cup {(f :> v) @@ BaseTable : f \in ForkFieldSet, v \in HeightValues}
    \cup {("TsunamiBlockHeight" :> t) @@ ("WakeBlockHeight" :> w) @@ BaseTable :
            t \in 0..MaxHeight, w \in 0..MaxHeight}
    \cup UNION {{(f :> v) @@ BaseTable : v \in Values(f)} : f \in ScalarFields}
    \cup {("Delegates" :> ds) @@ BaseTable : ds \in DelegateLists(MaxDelegates)}
    \cup {("ReplayDeployerWhitelist" :> wl) @@ BaseTable : wl \in Whitelists(MaxWhitelist)}

\* the documents of the files New cannot load
BadFileDocs ==
    {<<>>, BaseTable, ("WakeBlockHeight" :> 0) @@ ("BlockRewardStr" :> "1") @@ BaseTable}

\* keys that name no field of Genesis: a fork height misspelt, and a key of
\* another component's configuration
UnknownKeys == {"WakeBlockHieght", "Chain"}

\* What genesisPath can lead to: a well-formed document; a file that cannot
\* be read, or is not YAML; a document one of whose values does not fit its
\* field; a document with a key that names no field.
Files ==
    {[yaml |-> "ok", doc |-> d, mistyped |-> {}, unknown |-> {}] : d \in Docs}
    \cup {[yaml |-> y, doc |-> d, mistyped |-> {}, unknown |-> {}] :
            y \in {"unreadable", "malformed"}, d \in BadFileDocs}
    \cup {[yaml |-> "ok", doc |-> d, mistyped |-> {f}, unknown |-> {}] :
            d \in BadFileDocs, f \in {"BlockGasLimit", "PacificBlockHeight", "Delegates"}}
    \cup {[yaml |-> "ok", doc |-> d, mistyped |-> {}, unknown |-> {k}] :
            d \in BadFileDocs, k \in UnknownKeys}

---------------------------------------------------------------------------
(* The process-wide genesis timestamp: _genesisTs and _loadGenesisTs *)

\* the goroutines that may call SetGenesisTimestamp and Timestamp
Goroutines == {"g1", "g2"}

\* the values the model gives a 32-bit half of an int64
Words == {0, 1}

\* an int64, as <<high half, low half>>
Int64s == Words \X Words

\* the zero value _genesisTs has before any write
Zero64 == <<0, 0>>

\* the machine word of a build: an int64 is one word, or two
WordSizes == {32, 64}

\* the calls of SetGenesisTimestamp made during a run
MaxCalls == 3
\* the calls of Timestamp made during a run
MaxReads == 2

\* a goroutine outside SetGenesisTimestamp
Idle == [pc |-> "idle", ts |-> Zero64, stored |-> {}]

\* a sync.Once nobody has run: done is 0 and the mutex m is free
OnceZero == [done |-> FALSE, m |-> "unlocked"]

\* nothing called yet.  calls counts the SetGenesisTimestamp calls made,
\* first and last are the arguments of the first and the latest of them,
\* sequential says that no call was made while another was running, bodies
\* counts the runs of the function handed to Do, written is the argument
\* that function stored, and reads lists, first to last, what each
\* Timestamp call returned (ret) and how many SetGenesisTimestamp calls had
\* been made before it (after)
NoHist ==
    [calls |-> 0, first |-> Zero64, last |-> Zero64, sequential |-> TRUE,
     bodies |-> 0, written |-> Zero64, reads |-> <<>>]

\* every goroutine is outside SetGenesisTimestamp
AllIdle == \A r \in Goroutines : routine[r].pc = "idle"

---------------------------------------------------------------------------
(* The state machine *)

\* call holds the call the caller has just made, with its argument and
\* result, until the caller has taken the result; it is NoCall in between
NoCall == [op |-> "none", arg |-> <<>>, ret |-> <<>>]

\* the package is initialised: Default = defaultConfig(), nothing loaded
Init ==
    /\ g = defaultConfig
    /\ loaded = FALSE
    /\ height = 0
    /\ call = NoCall
    /\ genesisTs = Zero64
    /\ loadGenesisTs = OnceZero
    /\ wordSize = 64
    /\ routine = [r \in Goroutines |-> Idle]
    /\ hist = NoHist

\* the node loads its genesis before any block is processed; it starts
\* only when New returns no error
CallNew ==
    /\ ~loaded
    /\ call = NoCall
    /\ height = 0
    /\ \E file \in Files :
          /\ call' = [op |-> "New", arg |-> file, ret |-> New(file)]
          /\ g' = IF New(file).err = "nil" THEN New(file).genesis ELSE g
          /\ loaded' = (New(file).err = "nil")
    /\ UNCHANGED height
    /\ UNCHANGED tsVars

\* a test builds its Genesis with TestDefault() instead of New
CallTestDefault ==
    /\ ~loaded
    /\ call = NoCall
    /\ height = 0
    /\ \E size \in IdentitySizes :
          /\ call' = [op |-> "TestDefault", arg |-> size, ret |-> TestDefault(size)]
          /\ g' = TestDefault(size)
    /\ loaded' = TRUE
    /\ UNCHANGED height
    /\ UNCHANGED tsVars

\* the block pipeline moves on to a later height
AdvanceHeight ==
    /\ call = NoCall
    /\ \E h \in Heights : h > height /\ height' = h
    /\ UNCHANGED <<g, loaded, call>>
    /\ UNCHANGED tsVars

\* the caller takes the result of its call
Return ==
    /\ call # NoCall
    /\ call' = NoCall
    /\ UNCHANGED <<g, loaded, height>>
    /\ UNCHANGED tsVars

\* one of the 27 gates is asked about the current height
CallGate ==
    /\ call = NoCall
    /\ \E name \in GateNames :
          call' = [op |-> name, arg |-> height, ret |-> Gate(name, g, height)]
    /\ UNCHANGED <<g, loaded, height>>
    /\ UNCHANGED tsVars

CallBlockGasLimitByHeight ==
    /\ call = NoCall
    /\ call' = [op  |-> "BlockGasLimitByHeight", arg |-> height,
                ret |-> BlockGasLimitByHeight(g, height)]
    /\ UNCHANGED <<g, loaded, height>>
    /\ UNCHANGED tsVars

\* the commitment is computed when the chain is set up, before any block
CallHash ==
    /\ call = NoCall
    /\ height = 0
    /\ \E order \in RangeOrders(g.InitBalanceMap) :
          call' = [op |-> "Hash", arg |-> <<>>, ret |-> Hash(g, order)]
    /\ UNCHANGED <<g, loaded, height>>
    /\ UNCHANGED tsVars

\* the initial balances are read once, to build the state of height 0
CallInitBalances ==
    /\ call = NoCall
    /\ height = 0
    /\ \E order \in RangeOrders(g.InitBalanceMap) :
          call' = [op |-> "InitBalances", arg |-> <<>>, ret |-> InitBalances(g, order)]
    /\ UNCHANGED <<g, loaded, height>>
    /\ UNCHANGED tsVars

\* a deployment transaction is checked against the allowlist
CallIsDeployerWhitelisted ==
    /\ call = NoCall
    /\ \E deployer \in Deployers :
          call' = [op  |-> "IsDeployerWhitelisted", arg |-> deployer,
                   ret |-> IsDeployerWhitelisted(g, deployer)]
    /\ UNCHANGED <<g, loaded, height>>
    /\ UNCHANGED tsVars

\* one of the amount accessors of Rewarding is called
CallRewardingAmount ==
    /\ call = NoCall
    /\ \E name \in RewardingAccessors :
          call' = [op |-> name, arg |-> <<>>, ret |-> RewardingAmount(name, g)]
    /\ UNCHANGED <<g, loaded, height>>
    /\ UNCHANGED tsVars

\* an accessor of the i-th delegate is called
CallDelegateAccessor ==
    /\ call = NoCall
    /\ \E i \in 1..Len(g.Delegates) : \E name \in DelegateAccessors :
          call' = [op |-> name, arg |-> i, ret |-> DelegateAccessor(name, g.Delegates[i])]
    /\ UNCHANGED <<g, loaded, height>>
    /\ UNCHANGED tsVars

Next ==
    \/ CallNew
    \/ CallTestDefault
    \/ AdvanceHeight
    \/ Return
    \/ CallGate
    \/ CallBlockGasLimitByHeight
    \/ CallHash
    \/ CallInitBalances
    \/ CallIsDeployerWhitelisted
    \/ CallRewardingAmount
    \/ CallDelegateAccessor

Spec == Init /\ [][Next]_vars

---------------------------------------------------------------------------
(* SetGenesisTimestamp and Timestamp, goroutine by goroutine.  Once.Do is  *)
(* taken step by step: the load of done, the lock of m with the second     *)
(* load of done, the function, the deferred store of done, the deferred    *)
(* unlock.  The function's `_genesisTs = ts` is a plain store: one store   *)
(* where an int64 is a machine word, two stores of a half each, in either  *)
(* order, where it is two words.  Timestamp's atomic.LoadInt64 reads both  *)
(* halves in one step on every build.                                      *)

\* the package is initialised, on a build of either word size
InitTs ==
    /\ g = defaultConfig
    /\ loaded = FALSE
    /\ height = 0
    /\ call = NoCall
    /\ genesisTs = Zero64
    /\ loadGenesisTs = OnceZero
    /\ wordSize \in WordSizes
    /\ routine = [r \in Goroutines |-> Idle]
    /\ hist = NoHist

\* goroutine r calls SetGenesisTimestamp(ts)
SetGenesisTimestamp(r) ==
    /\ routine[r].pc = "idle"
    /\ hist.calls < MaxCalls
    /\ \E ts \in Int64s :
          /\ routine' = [routine EXCEPT ![r] = [pc |-> "Do", ts |-> ts, stored |-> {}]]
          /\ hist' = [hist EXCEPT !.calls = @ + 1,
                                  !.first = IF hist.calls = 0 THEN ts ELSE @,
                                  !.last = ts,
                                  !.sequential = @ /\ AllIdle]
    /\ UNCHANGED <<genesisTs, loadGenesisTs, wordSize>>
    /\ UNCHANGED genVars

\* DoneIsZero for a Once that forgets it has run
DoneIsZeroAlways(o) == TRUE

\* o.done.Load() == 0
DoneIsZero(o) == ~o.done

\* Once.Do: if done is 0 take the slow path, otherwise return
OnceDo(r) ==
    /\ routine[r].pc = "Do"
    /\ routine' = [routine EXCEPT ![r].pc =
                      IF DoneIsZero(loadGenesisTs) THEN "doSlow" ELSE "return"]
    /\ UNCHANGED <<genesisTs, loadGenesisTs, wordSize, hist>>
    /\ UNCHANGED genVars

\* Once.doSlow: lock m; if done is still 0 run the function, otherwise unlock
OnceDoSlow(r) ==
    /\ routine[r].pc = "doSlow"
    /\ loadGenesisTs.m = "unlocked"
    /\ loadGenesisTs' = [loadGenesisTs EXCEPT !.m = r]
    /\ IF DoneIsZero(loadGenesisTs)
       THEN /\ routine' = [routine EXCEPT ![r].pc = "f"]
            /\ hist' = [hist EXCEPT !.bodies = @ + 1, !.written = routine[r].ts]
       ELSE /\ routine' = [routine EXCEPT ![r].pc = "unlock"]
            /\ UNCHANGED hist
    /\ UNCHANGED <<genesisTs, wordSize>>
    /\ UNCHANGED genVars

\* the function handed to Do: _genesisTs = ts
StoreGenesisTs(r) ==
    /\ routine[r].pc = "f"
    /\ IF wordSize = 64
       THEN /\ genesisTs' = routine[r].ts
            /\ routine' = [routine EXCEPT ![r].pc = "stored"]
       ELSE \E half \in {1, 2} \ routine[r].stored :
               /\ genesisTs' = [genesisTs EXCEPT ![half] = routine[r].ts[half]]
               /\ routine' = [routine EXCEPT
                     ![r].stored = @ \cup {half},
                     ![r].pc = IF routine[r].stored \cup {half} = {1, 2}
                               THEN "stored" ELSE "f"]
    /\ UNCHANGED <<loadGenesisTs, wordSize, hist>>
    /\ UNCHANGED genVars

\* the deferred o.done.Store(1)
OnceDone(r) ==
    /\ routine[r].pc = "stored"
    /\ loadGenesisTs' = [loadGenesisTs EXCEPT !.done = TRUE]
    /\ routine' = [routine EXCEPT ![r].pc = "unlock"]
    /\ UNCHANGED <<genesisTs, wordSize, hist>>
    /\ UNCHANGED genVars

\* the deferred o.m.Unlock()
OnceUnlock(r) ==
    /\ routine[r].pc = "unlock"
    /\ loadGenesisTs' = [loadGenesisTs EXCEPT !.m = "unlocked"]
    /\ routine' = [routine EXCEPT ![r].pc = "return"]
    /\ UNCHANGED <<genesisTs, wordSize, hist>>
    /\ UNCHANGED genVars

\* SetGenesisTimestamp returns to its caller
SetGenesisTimestampReturn(r) ==
    /\ routine[r].pc = "return"
    /\ routine' = [routine EXCEPT ![r] = Idle]
    /\ UNCHANGED <<genesisTs, loadGenesisTs, wordSize, hist>>
    /\ UNCHANGED genVars

\* goroutine r calls Timestamp(): atomic.LoadInt64(&_genesisTs)
Timestamp(r) ==
    /\ routine[r].pc = "idle"
    /\ Len(hist.reads) < MaxReads
    /\ hist' = [hist EXCEPT !.reads = Append(@, [ret |-> genesisTs, after |-> hist.calls]),
                            !.sequential = @ /\ AllIdle]
    /\ UNCHANGED <<genesisTs, loadGenesisTs, wordSize, routine>>
    /\ UNCHANGED genVars

NextTs ==
    \E r \in Goroutines :
        \/ SetGenesisTimestamp(r)
        \/ OnceDo(r)
        \/ OnceDoSlow(r)
        \/ StoreGenesisTs(r)
        \/ OnceDone(r)
        \/ OnceUnlock(r)
        \/ SetGenesisTimestampReturn(r)
        \/ Timestamp(r)

SpecTs == InitTs /\ [][NextTs]_vars

---------------------------------------------------------------------------
(* One goroutine sets and reads the timestamp, its calls one after         *)
(* another, while the process loads and hashes its Genesis: New,           *)
(* TestDefault and Hash run at any moment, also between two steps of a     *)
(* SetGenesisTimestamp call.                                               *)

\* the files the process loads its Genesis from while the timestamp is
\* being set and read: a document with a table of one entry, and a file
\* that cannot be read
TsFiles ==
    {[yaml |-> "ok", doc |-> BaseTable, mistyped |-> {}, unknown |-> {}],
     [yaml |-> "unreadable", doc |-> <<>>, mistyped |-> {}, unknown |-> {}]}

\* GenesisTsAfterLoad for a New that publishes a timestamp as it loads
GenesisTsAfterLoadPublishing(ts) == <<0, 1>>

\* _genesisTs after New, TestDefault or Hash has run: none of them names
\* _genesisTs or _loadGenesisTs
GenesisTsAfterLoad(ts) == ts

\* the process loads its Genesis with New, at any moment
LoadNew ==
    /\ ~loaded
    /\ call = NoCall
    /\ \E file \in TsFiles :
          /\ call' = [op |-> "New", arg |-> file, ret |-> New(file)]
          /\ g' = IF New(file).err = "nil" THEN New(file).genesis ELSE g
          /\ loaded' = (New(file).err = "nil")
    /\ genesisTs' = GenesisTsAfterLoad(genesisTs)
    /\ UNCHANGED <<height, loadGenesisTs, wordSize, routine, hist>>

\* a test builds its Genesis with TestDefault, at any moment
LoadTestDefault ==
    /\ ~loaded
    /\ call = NoCall
    /\ call' = [op |-> "TestDefault", arg |-> 1, ret |-> TestDefault(1)]
    /\ g' = TestDefault(1)
    /\ loaded' = TRUE
    /\ genesisTs' = GenesisTsAfterLoad(genesisTs)
    /\ UNCHANGED <<height, loadGenesisTs, wordSize, routine, hist>>

\* the loaded Genesis is hashed, at any moment
HashLoaded ==
    /\ loaded
    /\ call.op # "Hash"
    /\ \E order \in RangeOrders(g.InitBalanceMap) :
          call' = [op |-> "Hash", arg |-> <<>>, ret |-> Hash(g, order)]
    /\ genesisTs' = GenesisTsAfterLoad(genesisTs)
    /\ UNCHANGED <<g, loaded, height, loadGenesisTs, wordSize, routine, hist>>

\* the goroutine whose calls come one after another
Caller == "g1"

NextTsLoad ==
    \/ SetGenesisTimestamp(Caller)
    \/ OnceDo(Caller)
    \/ OnceDoSlow(Caller)
    \/ StoreGenesisTs(Caller)
    \/ OnceDone(Caller)
    \/ OnceUnlock(Caller)
    \/ SetGenesisTimestampReturn(Caller)
    \/ Timestamp(Caller)
    \/ LoadNew
    \/ LoadTestDefault
    \/ HashLoaded

SpecTsLoad == InitTs /\ [][NextTsLoad]_vars

---------------------------------------------------------------------------
(* The read operations called by several goroutines at once, on one        *)
(* loaded Genesis.  A call takes two steps: the goroutine enters the       *)
(* operation, and later the operation reads the record and returns.  On    *)
(* entry the goroutine notes what the operation returns when it runs alone *)
(* on the record as it is then.                                            *)

\* the documents of the genesis the goroutines read: delegates with a gas
\* schedule, a table of two entries, a table and an allowlist with
\* malformed entries
ReadDocs ==
    {("Delegates" :> << [OperatorAddrStr |-> "io1uqhmnttmv0pg8prugxxn7d8ex9angrvfjfthxa",
                         RewardAddrStr   |-> "",
                         VotesStr        |-> "1"],
                        [OperatorAddrStr |-> "",
                         RewardAddrStr   |-> "io1bad",
                         VotesStr        |-> "not-a-number"] >>)
        @@ ("TsunamiBlockHeight" :> 1) @@ ("WakeBlockHeight" :> 2) @@ BaseTable,
     "InitBalanceMap" :> << <<"io1v3gkc49d5vwtdfdka2ekjl3h468egun8e43r7z", "1">>,
                            <<"io1llupp3n8q5x8usnr5w08j6hc6hn55x64l46rr7", "007">> >>,
     ("ReplayDeployerWhitelist" :> <<"io1bad", "">>)
        @@ ("FoundationBonusStr" :> "not-a-number")
        @@ ("InitBalanceMap" :> << <<"io1llupp3n8q5x8usnr5w08j6hc6hn55x64l46rr7", "not-a-number">>,
                                   <<"io1v3gkc49d5vwtdfdka2ekjl3h468egun8e43r7z", "1">> >>)}

\* a genesis has been loaded and the chain is at some height
InitReads ==
    /\ g \in {New([yaml |-> "ok", doc |-> d, mistyped |-> {}, unknown |-> {}]).genesis
              : d \in ReadDocs}
    /\ loaded = TRUE
    /\ height \in Heights
    /\ call = NoCall
    /\ genesisTs = Zero64
    /\ loadGenesisTs = OnceZero
    /\ wordSize = 64
    /\ routine = [r \in Goroutines |-> Idle]
    /\ hist = NoHist

\* what the read operation op returns for arg on gen, when ranging over the
\* balance table yields its keys in `order`
ReadResult(op, arg, gen, order) ==
    CASE op \in GateNames             -> Gate(op, gen, arg)
      [] op = "BlockGasLimitByHeight" -> BlockGasLimitByHeight(gen, arg)
      [] op = "Hash"                  -> Hash(gen, order)
      [] op = "InitBalances"          -> InitBalances(gen, order)
      [] op = "IsDeployerWhitelisted" -> IsDeployerWhitelisted(gen, arg)
      [] op \in RewardingAccessors    -> RewardingAmount(op, gen)
      [] op \in DelegateAccessors     -> DelegateAccessor(op, gen.Delegates[arg])

\* GenesisAfterRead for a BlockGasLimitByHeight that keeps the limit in
\* force in the record, to save the comparisons of the next call
GenesisAfterReadMemoising(op, arg, gen) ==
    IF op = "BlockGasLimitByHeight"
    THEN [gen EXCEPT !.BlockGasLimit = BlockGasLimitByHeight(gen, arg)]
    ELSE gen

\* the record a read operation leaves behind: no operation assigns a field
GenesisAfterRead(op, arg, gen) == gen

\* goroutine r is inside op(arg)
Reading(op, arg, order) ==
    [pc |-> "reading", op |-> op, arg |-> arg,
     alone |-> ReadResult(op, arg, g, order)]

\* goroutine r enters a read operation
BeginRead(r) ==
    /\ routine[r].pc = "idle"
    /\ \/ \E name \in GateNames \cup {"BlockGasLimitByHeight"} :
             routine' = [routine EXCEPT ![r] = Reading(name, height, <<>>)]
       \/ \E name \in {"Hash", "InitBalances"} :
             \E order \in RangeOrders(g.InitBalanceMap) :
                routine' = [routine EXCEPT ![r] = Reading(name, <<>>, order)]
       \/ \E deployer \in Deployers :
             routine' = [routine EXCEPT ![r] =
                            Reading("IsDeployerWhitelisted", deployer, <<>>)]
       \/ \E name \in RewardingAccessors :
             routine' = [routine EXCEPT ![r] = Reading(name, <<>>, <<>>)]
       \/ \E name \in DelegateAccessors : \E i \in 1..Len(g.Delegates) :
             routine' = [routine EXCEPT ![r] = Reading(name, i, <<>>)]
    /\ UNCHANGED <<genesisTs, loadGenesisTs, wordSize, hist>>
    /\ UNCHANGED genVars

\* the operation goroutine r is inside reads the record and returns
FinishRead(r) ==
    /\ routine[r].pc = "reading"
    /\ \E order \in RangeOrders(g.InitBalanceMap) :
          routine' = [routine EXCEPT ![r] =
              [pc |-> "read", op |-> routine[r].op, arg |-> routine[r].arg,
               alone |-> routine[r].alone,
               ret |-> ReadResult(routine[r].op, routine[r].arg, g, order)]]
    /\ g' = GenesisAfterRead(routine[r].op, routine[r].arg, g)
    /\ UNCHANGED <<loaded, height, call>>
    /\ UNCHANGED <<genesisTs, loadGenesisTs, wordSize, hist>>

\* goroutine r takes the result of its call
TakeResult(r) ==
    /\ routine[r].pc = "read"
    /\ routine' = [routine EXCEPT ![r] = Idle]
    /\ UNCHANGED <<genesisTs, loadGenesisTs, wordSize, hist>>
    /\ UNCHANGED genVars

NextReads ==
    \E r \in Goroutines :
        \/ BeginRead(r)
        \/ FinishRead(r)
        \/ TakeResult(r)

SpecReads == InitReads /\ [][NextReads]_vars

---------------------------------------------------------------------------
(* The gates of the default configuration, asked as the chain grows past   *)
(* the default fork heights.                                               *)

\* the heights just below, at and just above every default fork height
ForkProbes ==
    {0} \cup UNION {{defaultConfig[f] - 1, defaultConfig[f]} : f \in ForkFieldSet}
        \cup {defaultConfig[f] + 1 : f \in ForkFieldSet \ {"ToBeEnabledBlockHeight"}}

\* New("") has loaded the default configuration
InitForks ==
    /\ g = New([yaml |-> "ok", doc |-> <<>>, mistyped |-> {}, unknown |-> {}]).genesis
    /\ loaded = TRUE
    /\ height = 0
    /\ call = NoCall
    /\ genesisTs = Zero64
    /\ loadGenesisTs = OnceZero
    /\ wordSize = 64
    /\ routine = [r \in Goroutines |-> Idle]
    /\ hist = NoHist

\* the chain grows to a later height
GrowChain ==
    /\ call = NoCall
    /\ \E h \in ForkProbes : h > height /\ height' = h
    /\ UNCHANGED <<g, loaded, call>>
    /\ UNCHANGED tsVars

NextForks ==
    \/ GrowChain
    \/ CallGate
    \/ Return

SpecForks == InitForks /\ [][NextForks]_vars

---------------------------------------------------------------------------
(* Claims C1 - C4: the gates and the block gas limit *)

IsGateCall == call.op \in GateNames

IsGasCall == call.op = "BlockGasLimitByHeight"

\* the height field a gate is named after: IsPacific -> PacificBlockHeight
OwnField(name) == SubSeq(name, 3, Len(name)) \o "BlockHeight"

\* C1: a gate called at height h returns TRUE exactly when h is at or above
\* the gate's own height field, and its result is the same whatever value
\* any other fork height takes.
C1_GateIsOwnHeight ==
    IsGateCall =>
        /\ call.ret = (call.arg >= g[OwnField(call.op)])
        /\ \A f \in ForkFieldSet \ {OwnField(call.op)} : \A v \in HeightValues :
              Gate(call.op, [g EXCEPT ![f] = v], call.arg) = call.ret

\* a gate asked at exactly its activation height, below a later fork's height
C1_Witness ==
    /\ call.op = "IsFbkMigration"
    /\ call.arg = g.FbkMigrationBlockHeight
    /\ call.arg > 0
    /\ call.arg < g.FairbankBlockHeight
    /\ call.ret = TRUE

\* C2: a gate that is active at a height is active at every greater height,
\* and while the genesis stays the same and the height grows, no active
\* gate becomes inactive.
C2_MonotonicActivation ==
    /\ [](IsGateCall /\ call.ret = TRUE =>
            \A h2 \in Heights : h2 > call.arg => Gate(call.op, g, h2))
    /\ [][g' = g /\ height' >= height =>
            \A name \in GateNames : Gate(name, g, height) => Gate(name, g', height')]_vars

\* a gate found active above its activation height, after the height grew
C2_Witness ==
    /\ IsGateCall
    /\ call.ret = TRUE
    /\ g[OwnField(call.op)] > 0
    /\ call.arg > g[OwnField(call.op)]

\* the three tiers (activation height, limit) of the block gas limit
Tiers(bc) ==
    {<<0, bc.BlockGasLimit>>,
     <<bc.TsunamiBlockHeight, bc.TsunamiBlockGasLimit>>,
     <<bc.WakeBlockHeight, bc.WakeBlockGasLimit>>}

\* t is a tier of the greatest activation height not exceeding h
Greatest(bc, t, h) ==
    /\ t \in Tiers(bc)
    /\ t[1] <= h
    /\ \A u \in Tiers(bc) : u[1] <= h => u[1] <= t[1]

C4_ThreeTiers ==
    (/\ IsGasCall
     /\ g.BlockGasLimit = 20000000
     /\ g.TsunamiBlockGasLimit = 50000000
     /\ g.WakeBlockGasLimit = 25000000
     /\ g.TsunamiBlockHeight < g.WakeBlockHeight)
    => call.ret = IF call.arg < g.TsunamiBlockHeight THEN 20000000
                  ELSE IF call.arg < g.WakeBlockHeight THEN 50000000
                  ELSE 25000000

\* the limit lowered again: asked at or above the Wake height, with all
\* three eras non-empty
C4_Witness ==
    /\ IsGasCall
    /\ g.BlockGasLimit = 20000000
    /\ g.TsunamiBlockGasLimit = 50000000
    /\ 0 < g.TsunamiBlockHeight
    /\ g.TsunamiBlockHeight < g.WakeBlockHeight
    /\ g.WakeBlockHeight <= call.arg
    /\ call.arg < MaxUint64
    /\ call.ret = 25000000

---------------------------------------------------------------------------
(* Claims C5 - C8: the commitment *)

IsHashCall == call.op = "Hash"

\* the (address, amount) pairs of a table
Pairs(m) == {<<k, m[k]>> : k \in DOMAIN m}

\* the orders in which the pairs of a table can have been inserted, cut to
\* four orders for a table larger than a document supplies
InsertionOrders(m) ==
    IF Cardinality(DOMAIN m) <= MaxBalances THEN Perms(Pairs(m))
    ELSE LET s == SetToSeq(Pairs(m))
         IN  {s, Reverse(s), Rotate(s, 1), Rotate(Reverse(s), 5)}

\* the commitments of gen, over the orders its table can be ranged in
Hashes(gen) == {Hash(gen, order) : order \in RangeOrders(gen.InitBalanceMap)}

\* C5: the commitment is the same whatever order the table is ranged over
\* in, and whatever order its pairs were inserted in.
C5_HashOrderIndependent ==
    IsHashCall =>
        /\ Hashes(g) = {call.ret}
        /\ \A ins \in InsertionOrders(g.InitBalanceMap) :
              Hashes([g EXCEPT !.InitBalanceMap = BuildMap(ins)]) = {call.ret}

\* the commitment of a table of three entries or more
C5_Witness ==
    /\ IsHashCall
    /\ Cardinality(DOMAIN g.InitBalanceMap) >= 3

\* the scalar fields Hash writes into the canonical record
CommittedScalars ==
    {"Timestamp", "BlockGasLimit", "ActionGasLimit", "BlockInterval", "NumSubEpochs",
     "NumDelegates", "NumCandidateDelegates", "TimeBasedRotation",
     "EnableGravityChainVoting", "GravityChainStartHeight", "RegisterContractAddress",
     "StakingContractAddress", "VoteThreshold", "ScoreThreshold", "SelfStakingThreshold",
     "InitBalanceStr", "BlockRewardStr", "EpochRewardStr", "NumDelegatesForEpochReward",
     "FoundationBonusStr", "NumDelegatesForFoundationBonus", "FoundationBonusLastEpoch",
     "ProductivityThreshold"}

\* m with the key k renamed to k2
Rekey(m, k, k2) ==
    [x \in (DOMAIN m \ {k}) \cup {k2} |-> IF x = k2 THEN m[k] ELSE m[x]]

\* the parameter sets that differ from gen in exactly one committed field:
\* one scalar, one amount or one address of the balance table, or one
\* string of one delegate
OneFieldChanged(gen) ==
    LET m  == gen.InitBalanceMap
        ds == gen.Delegates
    IN  UNION {{[gen EXCEPT ![f] = v] : v \in (Values(f) \cup {defaultConfig[f]}) \ {gen[f]}}
                  : f \in CommittedScalars}
        \cup UNION {{[gen EXCEPT !.InitBalanceMap = MapSet(m, k, v)]
                  : v \in TableAmounts \ {m[k]}} : k \in DOMAIN m}
        \cup UNION {{[gen EXCEPT !.InitBalanceMap = Rekey(m, k, k2)]
                  : k2 \in TableAddrs \ DOMAIN m} : k \in DOMAIN m}
        \cup UNION {{[gen EXCEPT !.Delegates[i].OperatorAddrStr = v]
                  : v \in TableAddrs \ {ds[i].OperatorAddrStr}} : i \in 1..Len(ds)}
        \cup UNION {{[gen EXCEPT !.Delegates[i].RewardAddrStr = v]
                  : v \in (TableAddrs \cup {""}) \ {ds[i].RewardAddrStr}} : i \in 1..Len(ds)}
        \cup UNION {{[gen EXCEPT !.Delegates[i].VotesStr = v]
                  : v \in TableAmounts \ {ds[i].VotesStr}} : i \in 1..Len(ds)}

\* C6: a parameter set that differs in exactly one committed field has a
\* different canonical record, hence a different commitment.
C6_HashSensitive ==
    IsHashCall => \A g2 \in OneFieldChanged(g) : call.ret \notin Hashes(g2)

\* a commitment of a parameter set with a table and delegates to change
C6_Witness ==
    /\ IsHashCall
    /\ Len(g.Delegates) >= 1
    /\ Cardinality(OneFieldChanged(g)) > Cardinality(CommittedScalars)

\* C7: parameter sets that differ only in fork heights have the same
\* commitment: changing one fork height, or all of them, leaves it as it is.
C7_HashIgnoresForkHeights ==
    IsHashCall =>
        /\ \A f \in ForkFieldSet : \A v \in HeightValues \cup {defaultConfig[f]} :
              Hashes([g EXCEPT ![f] = v]) = {call.ret}
        /\ \A v \in HeightValues :
              Hashes([f \in DOMAIN g |-> IF f \in ForkFieldSet THEN v ELSE g[f]])
                  = {call.ret}

\* the commitment of a parameter set whose document moved a fork height
C7_Witness ==
    /\ IsHashCall
    /\ g.WakeBlockHeight = 0
    /\ g.TsunamiBlockHeight > 0

Swap(s, i, j) ==
    [k \in 1..Len(s) |-> IF k = i THEN s[j] ELSE IF k = j THEN s[i] ELSE s[k]]

\* C8: swapping two distinct delegates changes the commitment.
C8_DelegateOrderCommitted ==
    IsHashCall =>
        \A i, j \in 1..Len(g.Delegates) :
            g.Delegates[i] # g.Delegates[j] =>
                call.ret \notin Hashes([g EXCEPT !.Delegates = Swap(g.Delegates, i, j)])

\* the commitment of a list of two distinct delegates that is not in the
\* order of their operator addresses
C8_Witness ==
    /\ IsHashCall
    /\ Len(g.Delegates) = 2
    /\ StrLess(g.Delegates[2].OperatorAddrStr, g.Delegates[1].OperatorAddrStr)

---------------------------------------------------------------------------
(* Claims C9 and C10: Account.InitBalances *)

IsInitBalancesCall == call.op = "InitBalances"

\* every address of the table is a well-formed native address and every
\* amount a base-10 integer
WellFormed(m) ==
    \A k \in DOMAIN m : ~FromString(k).err /\ SetString(m[k]).ok

\* C9: for a table of well-formed entries InitBalances returns, without
\* panicking, two sequences as long as the table has entries, the addresses
\* in strictly ascending order of their strings, each entry of the table
\* once, the i-th amount being the parsed balance of the i-th address.
C9_InitBalancesSorted ==
    (IsInitBalancesCall /\ WellFormed(g.InitBalanceMap)) =>
        LET m == g.InitBalanceMap
            r == call.ret
        IN  /\ ~r.panic
            /\ Len(r.addrs) = Cardinality(DOMAIN m)
            /\ Len(r.amounts) = Cardinality(DOMAIN m)
            /\ {AddrString(r.addrs[i]) : i \in 1..Len(r.addrs)} = DOMAIN m
            /\ \A i \in 1..(Len(r.addrs) - 1) :
                  StrLess(AddrString(r.addrs[i]), AddrString(r.addrs[i + 1]))
            /\ \A i \in 1..Len(r.addrs) :
                  r.amounts[i] = SetString(m[AddrString(r.addrs[i])])

\* three well-formed entries returned, amounts not all equal
C9_Witness ==
    /\ IsInitBalancesCall
    /\ call.ret.panic = FALSE
    /\ Len(call.ret.addrs) = 3
    /\ call.ret.amounts[1] # call.ret.amounts[2]

\* C10: the addresses and amounts Hash serializes are, entry by entry and
\* in the same order, those InitBalances returns.
C10_SameOrderAsHash ==
    (IsInitBalancesCall /\ WellFormed(g.InitBalanceMap)) =>
        \A order \in RangeOrders(g.InitBalanceMap) :
            LET aProto == GenesisAccountProto(g, order)
                r      == call.ret
            IN  /\ Len(aProto.InitBalanceAddrs) = Len(r.addrs)
                /\ Len(aProto.InitBalances) = Len(r.amounts)
                /\ \A i \in 1..Len(r.addrs) :
                      /\ FromString(aProto.InitBalanceAddrs[i]).addr = r.addrs[i]
                      /\ SetString(aProto.InitBalances[i]) = r.amounts[i]

\* two or more well-formed entries returned, one written with leading zeros
C10_Witness ==
    /\ IsInitBalancesCall
    /\ call.ret.panic = FALSE
    /\ Len(call.ret.addrs) >= 2
    /\ \E k \in DOMAIN g.InitBalanceMap : g.InitBalanceMap[k] = "007"

---------------------------------------------------------------------------
(* Claims C11 - C12: the genesis timestamp *)

\* the Timestamp calls made so far
Reads == 1..Len(hist.reads)

\* C11: when the calls come one after another, every Timestamp() made after
\* the first SetGenesisTimestamp returns the argument of that first call,
\* and between calls _genesisTs holds that argument however many later
\* calls were made and whatever they passed.
C11_SetOnce ==
    hist.sequential =>
        /\ \A i \in Reads :
              hist.reads[i].after >= 1 => hist.reads[i].ret = hist.first
        /\ (hist.calls >= 1 /\ AllIdle) => genesisTs = hist.first

\* two calls with different arguments, one after the other, then a read
C11_Witness ==
    /\ hist.sequential
    /\ AllIdle
    /\ hist.calls >= 2
    /\ hist.last # hist.first
    /\ \E i \in Reads : hist.reads[i].after >= 2 /\ hist.reads[i].ret = hist.first

\* the function handed to Do ran at most once
WriteBodyAtMostOnce == hist.bodies <= 1

\* every read returned the unset value or the one value written
ReadsUnsetOrWritten ==
    \A i \in Reads : hist.reads[i].ret \in {Zero64, hist.written}

\* no read after one that returned the written value returned another value
ReadsStayWritten ==
    \A i, j \in Reads :
        (i < j /\ hist.bodies = 1 /\ hist.reads[i].ret = hist.written)
            => hist.reads[j].ret = hist.written

\* C12, as claimed: under any interleaving the write body runs at most
\* once, every read returns 0 or the single written value, and after a read
\* of the written value no read returns anything else.
C12_OneWriteWins ==
    /\ WriteBodyAtMostOnce
    /\ ReadsUnsetOrWritten
    /\ ReadsStayWritten

\* C12, what holds: on every build the write body runs at most once and no
\* read goes back from the written value; where an int64 is one machine
\* word every read returns 0 or the written value.
C12_OneWriteWinsOnWordSizedInt64 ==
    /\ WriteBodyAtMostOnce
    /\ ReadsStayWritten
    /\ wordSize = 64 => ReadsUnsetOrWritten

\* two calls raced, one of them wrote, a read saw 0 and a later one the value
C12_Witness ==
    /\ wordSize = 64
    /\ ~hist.sequential
    /\ hist.calls >= 2
    /\ hist.last # hist.first
    /\ hist.bodies = 1
    /\ hist.written # Zero64
    /\ \E i, j \in Reads :
          /\ i < j
          /\ hist.reads[i].ret = Zero64
          /\ hist.reads[i].after >= 1
          /\ hist.reads[j].ret = hist.written

---------------------------------------------------------------------------
(* Claims C13 - C14: the deployer allowlist *)

IsWhitelistCall == call.op = "IsDeployerWhitelisted"

\* the strings an allowlist holds
Entries(list) == {list[i] : i \in 1..Len(list)}

\* v is account a written in hex: 40 digits of either case, with or without 0x
IsHexFormOf(v, a) == IsHexAddress(v) /\ DecodeHex(Strip0x(v)) = a

\* v is account a in its native io1 encoding
IsNativeFormOf(v, a) == v = AddrString(a)

\* entry v names account a, in either form
Names(v, a) == IsHexFormOf(v, a) \/ IsNativeFormOf(v, a)

\* every entry of fewer than 3 bytes comes after an entry that names a
NoShortEntryScanned(list, a) ==
    \A i \in 1..Len(list) :
        Len(list[i]) < 3 => \E j \in 1..(i - 1) : Names(list[j], a)

\* C13, as claimed: IsDeployerWhitelisted(A) is true when the allowlist
\* contains A's hex form, true when it contains A's native form, and false
\* when no entry names A's account.
C13_AllowlistEquivalence ==
    IsWhitelistCall =>
        LET list == g.ReplayDeployerWhitelist
            A    == call.arg
        IN  /\ (\E v \in Entries(list) : IsHexFormOf(v, A)) => call.ret = Returns(TRUE)
            /\ (\E v \in Entries(list) : IsNativeFormOf(v, A)) => call.ret = Returns(TRUE)
            /\ (\A v \in Entries(list) : ~Names(v, A)) => call.ret = Returns(FALSE)

\* C13, what holds: the same three statements for the allowlists in which
\* no entry of fewer than 3 bytes is met before an entry that names A.
C13_EquivalenceWithoutShortEntries ==
    (IsWhitelistCall /\ NoShortEntryScanned(g.ReplayDeployerWhitelist, call.arg)) =>
        LET list == g.ReplayDeployerWhitelist
            A    == call.arg
        IN  /\ (\E v \in Entries(list) : IsHexFormOf(v, A)) => call.ret = Returns(TRUE)
            /\ (\E v \in Entries(list) : IsNativeFormOf(v, A)) => call.ret = Returns(TRUE)
            /\ (\A v \in Entries(list) : ~Names(v, A)) => call.ret = Returns(FALSE)

\* the default account is found through its native form, after an entry
\* that names another account
C13_Witness ==
    /\ IsWhitelistCall
    /\ call.arg = "3fab184622dc19b6109349b94811493bf2a45362"
    /\ g.ReplayDeployerWhitelist =
          <<"64516C54ADA31CB6A5B6EAB3697E37AE8F947267",
            "io18743s33zmsvmvyynfxu5sy2f80e2g5mzk3y5ue">>
    /\ call.ret = Returns(TRUE)

\* C14, as claimed: whatever the entries of the allowlist, the call does
\* not abort and returns a boolean.
C14_NeverAborts ==
    IsWhitelistCall => (~call.ret.panic /\ call.ret.val \in BOOLEAN)

\* C14, what holds: the call returns a boolean when no entry of fewer than
\* 3 bytes is met, and an entry of 3 bytes or more that parses under
\* neither encoding is passed over as a non-match.
C14_NeverAbortsOnLongEntries ==
    (IsWhitelistCall /\ NoShortEntryScanned(g.ReplayDeployerWhitelist, call.arg)) =>
        /\ ~call.ret.panic
        /\ call.ret.val = (\E v \in Entries(g.ReplayDeployerWhitelist) :
                              Names(v, call.arg))

\* an allowlist of two entries that parse under neither encoding
C14_Witness ==
    /\ IsWhitelistCall
    /\ g.ReplayDeployerWhitelist = <<"io1bad", "0x3fab">>
    /\ call.ret = Returns(FALSE)

---------------------------------------------------------------------------
(* Claims C15 - C20: amounts, addresses and New *)

IsRewardingCall == call.op \in RewardingAccessors

IsDelegateCall == call.op \in DelegateAccessors

IsNewCall == call.op = "New"

\* the string field a Rewarding accessor is named after:
\* BlockReward -> BlockRewardStr
AmountField(name) == name \o "Str"

\* s is a base-10 integer: one or more decimal digits after an optional sign
IsBase10(s) ==
    \E k \in {0, 1} :
        /\ Len(s) > k
        /\ k = 1 => Char(s, 1) \in {"+", "-"}
        /\ \A i \in (k + 1)..Len(s) : Char(s, i) \in Digits

\* n is the integer that s, a base-10 integer, denotes: the same digits
\* once leading zeros are dropped, negative when s begins with - and is not 0
Denotes(s, n) ==
    LET digits == IF Char(s, 1) \in {"+", "-"} THEN SubSeq(s, 2, Len(s)) ELSE s
    IN  /\ n.ok
        /\ n.mag = StripZeros(digits)
        /\ n.neg = (Char(s, 1) = "-" /\ \E i \in 1..Len(digits) : Char(digits, i) # "0")

\* a call that was handed the amount s returned what it must: the value of
\* s, or a panic and no value when s is not a base-10 integer
AmountOf(s, ret) ==
    IF IsBase10(s) THEN ~ret.panic /\ Denotes(s, ret.val) ELSE ret.panic

\* C15: every amount accessor returns the base-10 value of its string field
\* when the field is a base-10 integer and panics otherwise, never returning
\* zero or another amount in its place; so does InitBalances for each amount
\* of the table.
C15_AmountOrPanic ==
    /\ IsRewardingCall => AmountOf(g[AmountField(call.op)], call.ret)
    /\ call.op = "Votes" => AmountOf(g.Delegates[call.arg].VotesStr, call.ret)
    /\ IsInitBalancesCall =>
          LET table == g.InitBalanceMap
          IN  IF call.ret.panic
              THEN \E k \in DOMAIN table : FromString(k).err \/ ~IsBase10(table[k])
              ELSE /\ \A k \in DOMAIN table : IsBase10(table[k])
                   /\ \A i \in 1..Len(call.ret.amounts) :
                         \E k \in DOMAIN table :
                            /\ FromString(k).addr = call.ret.addrs[i]
                            /\ Denotes(table[k], call.ret.amounts[i])

\* an accessor met "not-a-number" and panicked
C15_Witness ==
    /\ call.op = "EpochReward"
    /\ g.EpochRewardStr = "not-a-number"
    /\ call.ret.panic

\* s is the native form of some account
IsNativeAddress(s) == \E i \in 1..Len(KnownAddrs) : KnownAddrs[i][1] = s

\* every amount and address string the accessors of gen parse is well
\* formed (a delegate's reward address may be empty)
AllStringsWellFormed(gen) ==
    /\ \A name \in RewardingAccessors : IsBase10(gen[AmountField(name)])
    /\ \A k \in DOMAIN gen.InitBalanceMap :
          IsNativeAddress(k) /\ IsBase10(gen.InitBalanceMap[k])
    /\ \A i \in 1..Len(gen.Delegates) :
          /\ IsNativeAddress(gen.Delegates[i].OperatorAddrStr)
          /\ gen.Delegates[i].RewardAddrStr = ""
                \/ IsNativeAddress(gen.Delegates[i].RewardAddrStr)
          /\ IsBase10(gen.Delegates[i].VotesStr)

\* the calls that are served from the loaded genesis and returned a value
IsServed ==
    /\ loaded
    /\ \/ IsGateCall
       \/ IsGasCall
       \/ IsHashCall
       \/ (IsInitBalancesCall \/ IsRewardingCall \/ IsDelegateCall) /\ ~call.ret.panic

\* C16, as claimed: New returns no parameter set that holds a malformed
\* amount or address string, so no gate, Hash or accessor is served from one.
C16_MalformedStringsStopNew ==
    /\ (IsNewCall /\ call.ret.err = "nil") => AllStringsWellFormed(call.ret.genesis)
    /\ IsServed => AllStringsWellFormed(g)

\* C16, what holds: New takes every string of the document as it is written,
\* well formed or not, and a malformed string is fatal only to the accessor
\* that parses it.
C16_MalformedStringsStopAccessors ==
    /\ (IsNewCall /\ call.ret.err = "nil") =>
          \A f \in StrFields \cap DOMAIN call.arg.doc :
              call.ret.genesis[f] = call.arg.doc[f]
    /\ (IsRewardingCall /\ ~IsBase10(g[AmountField(call.op)])) => call.ret.panic
    /\ (IsInitBalancesCall /\ ~AllStringsWellFormed(g)
           /\ AllStringsWellFormed([g EXCEPT !.InitBalanceMap = EmptyMap])) => call.ret.panic

\* New returned a genesis whose table holds a malformed address and amount
C16_Witness ==
    /\ IsNewCall
    /\ call.ret.err = "nil"
    /\ "io1bad" \in DOMAIN call.ret.genesis.InitBalanceMap
    /\ call.ret.genesis.InitBalanceMap["io1bad"] = "not-a-number"

\* C17: when New returns an error, the Genesis it returns is the zero value:
\* no field carries a default or a value of the document, and the record the
\* node holds is not touched.
C17_NewAllOrNothing ==
    (IsNewCall /\ call.ret.err # "nil") =>
        /\ call.ret.genesis = ZeroGenesis
        /\ \A f \in DOMAIN defaultConfig :
              defaultConfig[f] # ZeroGenesis[f] => call.ret.genesis[f] # defaultConfig[f]
        /\ \A f \in DOMAIN call.arg.doc \ {"InitBalanceMap"} :
              call.arg.doc[f] # ZeroGenesis[f] => call.ret.genesis[f] # call.arg.doc[f]
        /\ DOMAIN call.ret.genesis.InitBalanceMap = {}
        /\ ~loaded
        /\ g = defaultConfig

\* Populate failed on a document that also sets well-typed keys
C17_Witness ==
    /\ IsNewCall
    /\ call.ret.err = "failed to unmarshal yaml genesis to struct"
    /\ call.arg.mistyped = {"PacificBlockHeight"}
    /\ "BlockRewardStr" \in DOMAIN call.arg.doc
    /\ call.ret.genesis.BlockRewardStr = ""

\* the table a document writes: its pairs, a later pair replacing an earlier
\* one of the same address; empty when the document has no table
DocTable(doc) ==
    IF "InitBalanceMap" \in DOMAIN doc
    THEN LET ins == doc["InitBalanceMap"]
         IN  [k \in {ins[i][1] : i \in 1..Len(ins)} |->
                 ins[CHOOSE i \in 1..Len(ins) :
                        ins[i][1] = k /\ \A j \in (i + 1)..Len(ins) : ins[j][1] # k][2]]
    ELSE EmptyMap

\* C18: the genesis New returns holds the seed table exactly when the table
\* of the document is empty; otherwise it holds the document's table, with
\* no seed entry added or replaced.
C18_SeedTableOnlyWhenEmpty ==
    (IsNewCall /\ call.ret.err = "nil") =>
        IF DOMAIN DocTable(call.arg.doc) = {}
        THEN call.ret.genesis.InitBalanceMap = defaultInitBalanceMap
        ELSE call.ret.genesis.InitBalanceMap = DocTable(call.arg.doc)

\* a document whose table has one entry, a seed address with another amount
C18_Witness ==
    /\ IsNewCall
    /\ call.ret.err = "nil"
    /\ DOMAIN call.ret.genesis.InitBalanceMap = {"io1uqhmnttmv0pg8prugxxn7d8ex9angrvfjfthxa"}
    /\ call.ret.genesis.InitBalanceMap["io1uqhmnttmv0pg8prugxxn7d8ex9angrvfjfthxa"] = "007"
    /\ defaultInitBalanceMap["io1uqhmnttmv0pg8prugxxn7d8ex9angrvfjfthxa"] # "007"

\* C19: RewardAddr returns nil, without failing, for an empty string, the
\* decoded address for a well-formed native string, and panics for any
\* other string; OperatorAddr returns the decoded address for a well-formed
\* native string and panics for any other string, the empty one included.
C19_RewardAddrOptional ==
    /\ call.op = "RewardAddr" =>
          LET s == g.Delegates[call.arg].RewardAddrStr
          IN  IF s = "" THEN call.ret = Returns(Nil)
              ELSE IF IsNativeAddress(s)
              THEN ~call.ret.panic /\ ~call.ret.val.nil
                      /\ AddrString(call.ret.val.addr) = s
              ELSE call.ret.panic
    /\ call.op = "OperatorAddr" =>
          LET s == g.Delegates[call.arg].OperatorAddrStr
          IN  IF IsNativeAddress(s)
              THEN ~call.ret.panic /\ ~call.ret.val.nil
                      /\ AddrString(call.ret.val.addr) = s
              ELSE call.ret.panic

\* a delegate with a well-formed operator address and no reward address
C19_Witness ==
    /\ call.op = "RewardAddr"
    /\ g.Delegates[call.arg].RewardAddrStr = ""
    /\ IsNativeAddress(g.Delegates[call.arg].OperatorAddrStr)
    /\ call.ret = Returns(Nil)

\* the string a panicking amount accessor had failed to parse
OffendingString ==
    IF IsRewardingCall THEN g[AmountField(call.op)]
    ELSE g.Delegates[call.arg].VotesStr

\* C20, as claimed: the panic of an amount accessor reports the value of
\* the field that failed to parse, for every accessor.
C20_ReportsOffendingField ==
    ((IsRewardingCall \/ call.op = "Votes") /\ call.ret.panic) =>
        call.ret.str = OffendingString

\* C20, what holds: every amount accessor but FoundationBonus reports the
\* field that failed to parse; FoundationBonus reports EpochRewardStr.
C20_ReportsOffendingFieldButFoundationBonus ==
    ((IsRewardingCall \/ call.op = "Votes") /\ call.ret.panic) =>
        IF call.op = "FoundationBonus"
        THEN call.ret.str = g.EpochRewardStr
        ELSE call.ret.str = OffendingString

\* FoundationBonus panicked on its own field and reported another string
C20_Witness ==
    /\ call.op = "FoundationBonus"
    /\ call.ret.panic
    /\ g.FoundationBonusStr = "not-a-number"
    /\ call.ret.str # "not-a-number"

---------------------------------------------------------------------------
(* Claim C21: the read operations under concurrent invocation *)

\* C21: whatever other read operations run at the same time, a read
\* operation returns what it returns when it runs alone on the same record
\* and argument, and no step of a read operation changes the Genesis record,
\* _genesisTs or _loadGenesisTs.
C21_ReadsArePure ==
    /\ [](\A r \in Goroutines :
             routine[r].pc = "read" => routine[r].ret = routine[r].alone)
    /\ [][/\ g' = g
          /\ genesisTs' = genesisTs
          /\ loadGenesisTs' = loadGenesisTs]_vars

\* a BlockGasLimitByHeight call returned while another goroutine was inside
\* one it had entered before
C21_Witness ==
    /\ routine["g1"].pc = "read"
    /\ routine["g1"].op = "BlockGasLimitByHeight"
    /\ routine["g2"].pc = "reading"
    /\ routine["g2"].op = "BlockGasLimitByHeight"
    /\ height >= g.TsunamiBlockHeight

---------------------------------------------------------------------------
(* Claim C22: Hash is deterministic *)

\* the parameter sets New builds from the documents
Built ==
    {New(file).genesis : file \in {f \in Files : New(f).err = "nil"}}

\* a and b agree on every field Hash writes into the canonical record
SameCommitted(a, b) ==
    /\ a.InitBalanceMap = b.InitBalanceMap
    /\ a.Delegates = b.Delegates
    /\ \A f \in CommittedScalars : a[f] = b[f]

\* the parameter sets built from another document than the one g was built
\* from, with the committed fields of g
BuiltAlike(gen) == {b \in Built : b # gen /\ SameCommitted(b, gen)}

\* C22: a Hash() call returns the one value every Hash() of the same Genesis
\* returns, and every parameter set built from another document with equal
\* committed fields has that commitment too, whatever order its table is
\* ranged over in.
C22_HashDeterministic ==
    IsHashCall =>
        /\ \A order \in RangeOrders(g.InitBalanceMap) : Hash(g, order) = call.ret
        /\ \A b \in BuiltAlike(g) : Hashes(b) = {call.ret}

\* the commitment of a Genesis with an allowlist of its own, which other
\* documents build with other fork heights and allowlists
C22_Witness ==
    /\ IsHashCall
    /\ g.ReplayDeployerWhitelist # defaultConfig.ReplayDeployerWhitelist
    /\ Cardinality(BuiltAlike(g)) >= 2

---------------------------------------------------------------------------
(* Claim C23: the sentinel height of a gate that is defined but not enabled *)

\* IsToBeEnabled was called on a Genesis whose ToBeEnabledBlockHeight is the
\* sentinel, as it is by default
IsSentinelCall ==
    /\ call.op = "IsToBeEnabled"
    /\ g.ToBeEnabledBlockHeight = MaxUint64

\* the fork heights of the default configuration that equal the sentinel
DefaultSentinels == {f \in ForkFieldSet : defaultConfig[f] = MaxUint64}

\* every default gate but IsToBeEnabled is inactive just below its own
\* height and active at it, and that height is below MaxUint64
OtherDefaultGatesFinite ==
    \A name \in GateNames \ {"IsToBeEnabled"} :
        /\ defaultConfig[OwnField(name)] < MaxUint64
        /\ Gate(name, defaultConfig, defaultConfig[OwnField(name)])
        /\ defaultConfig[OwnField(name)] > 0
              => ~Gate(name, defaultConfig, defaultConfig[OwnField(name)] - 1)

\* C23 as claimed: with ToBeEnabledBlockHeight at the sentinel,
\* IsToBeEnabled(h) is false at every block height h.
C23_SentinelNeverEnabled ==
    IsSentinelCall => call.ret = FALSE

\* C23: ToBeEnabledBlockHeight is the only default fork height equal to the
\* sentinel; with it at the sentinel IsToBeEnabled(h) is false at every
\* height below MaxUint64 and true at MaxUint64 itself; and every other
\* default gate is active from its own height, which is below MaxUint64.
C23_SentinelEnabledOnlyAtMaxUint64 ==
    /\ DefaultSentinels = {"ToBeEnabledBlockHeight"}
    /\ IsSentinelCall => call.ret = (call.arg = MaxUint64)
    /\ OtherDefaultGatesFinite

\* IsToBeEnabled asked below the sentinel, of a Genesis in which another
\* gate is already active
C23_Witness ==
    /\ IsSentinelCall
    /\ call.arg < MaxUint64
    /\ call.arg >= g.VanuatuBlockHeight

---------------------------------------------------------------------------
(* Claim C24: a document with an unknown key *)

\* New was called on a readable YAML document, every value of which fits
\* its field, with a key that names no field of Genesis
IsUnknownKeyCall ==
    /\ IsNewCall
    /\ call.arg.yaml = "ok"
    /\ call.arg.mistyped = {}
    /\ call.arg.unknown # {}

\* C24: New returns an error for a document with a key that is not a
\* recognized option, and no parameter set built from the rest of the
\* document: what it returns is Genesis{}, and the caller has no Genesis
\* loaded.
C24_UnknownKeyRejected ==
    IsUnknownKeyCall =>
        /\ call.ret.err = "failed to unmarshal yaml genesis to struct"
        /\ call.ret.genesis = ZeroGenesis
        /\ call.ret.genesis # Populate(call.arg.doc)
        /\ ~loaded

\* New called on a document that misspells WakeBlockHeight next to keys it
\* spells right
C24_Witness ==
    /\ IsUnknownKeyCall
    /\ "WakeBlockHieght" \in call.arg.unknown
    /\ "BlockRewardStr" \in DOMAIN call.arg.doc

---------------------------------------------------------------------------
(* Claim C25: the default gas limits of the Tsunami and Wake eras *)

GasFields ==
    {"BlockGasLimit", "TsunamiBlockGasLimit", "WakeBlockGasLimit",
     "TsunamiBlockHeight", "WakeBlockHeight"}

\* BlockGasLimitByHeight was called on a Genesis with the default gas
\* schedule
IsDefaultGasCall ==
    /\ IsGasCall
    /\ \A f \in GasFields : g[f] = defaultConfig[f]

\* heights around the default Tsunami and Wake heights
EraProbes ==
    {0, 29275560, 29275561, 29275562, 36893880, 36893881, 36893882, MaxUint64}

\* C25 as claimed: with the default configuration the limit is 30M from
\* Wake height (36893881) onward and 50M from Tsunami height up to it.
C25_WakeLimitIs30M ==
    IsDefaultGasCall =>
        /\ call.arg >= 36893881 => call.ret = 30000000
        /\ (call.arg >= 29275561 /\ call.arg < 36893881) => call.ret = 50000000

\* What holds: with the default configuration the limit is 25M from Wake
\* height onward, 50M from Tsunami height up to it, and 20M before.
C25_WakeLimitIs25M ==
    /\ IsDefaultGasCall =>
          call.ret = IF call.arg >= 36893881 THEN 25000000
                     ELSE IF call.arg >= 29275561 THEN 50000000
                     ELSE 20000000
    /\ \A h \in EraProbes :
          BlockGasLimitByHeight(defaultConfig, h) =
              IF h >= 36893881 THEN 25000000
              ELSE IF h >= 29275561 THEN 50000000
              ELSE 20000000

\* the limit asked at a height past the default Wake height
C25_Witness ==
    /\ IsDefaultGasCall
    /\ g.WakeBlockHeight = 36893881
    /\ call.arg >= g.WakeBlockHeight

---------------------------------------------------------------------------
(* Claim C26: the order of the fork heights at load time *)

\* two forks of gen are out of release order, or share a height
OutOfOrder(gen) ==
    \E i, j \in 1..Len(ForkFields) :
        i < j /\ gen[ForkFields[i]] >= gen[ForkFields[j]]

\* New was called on a readable document whose keys all name fields and
\* whose values all fit them
IsWellFormedNewCall ==
    /\ IsNewCall
    /\ call.arg.yaml = "ok"
    /\ call.arg.mistyped = {}
    /\ call.arg.unknown = {}

\* C26 as claimed: New returns an error for an override that puts fork
\* heights out of release order or gives two forks the same height, so no
\* loaded parameter set has such heights.
C26_ForkOrderEnforced ==
    /\ (IsWellFormedNewCall /\ OutOfOrder(Populate(call.arg.doc)))
          => call.ret.err # "nil"
    /\ loaded => ~OutOfOrder(g)

\* What holds: New compares no fork height with another; it returns every
\* fork height as the document writes it, and the default where the
\* document is silent, with a nil error.
C26_ForkHeightsLoadedAsWritten ==
    IsWellFormedNewCall =>
        /\ call.ret.err = "nil"
        /\ \A f \in ForkFieldSet :
              call.ret.genesis[f] = IF f \in DOMAIN call.arg.doc
                                    THEN call.arg.doc[f]
                                    ELSE defaultConfig[f]

\* New has loaded a document that puts Wake below Tsunami
C26_Witness ==
    /\ IsWellFormedNewCall
    /\ loaded
    /\ {"TsunamiBlockHeight", "WakeBlockHeight"} \subseteq DOMAIN call.arg.doc
    /\ g.WakeBlockHeight < g.TsunamiBlockHeight

---------------------------------------------------------------------------
(* Claim C27: the configuration TestDefault builds *)

IsTestDefaultCall == call.op = "TestDefault"

\* C27: TestDefault() lists min(identityset.Size(), NumDelegates) delegates
\* (24 once the identity set has 24 keys), the identities in index order,
\* each with its reward address equal to its operator address and its
\* operator address a key of InitBalanceMap; PacificBlockHeight is 0, and
\* IsPacific called on that configuration holds at every height, 0 included.
C27_TestDefaultDelegates ==
    /\ IsTestDefaultCall =>
          LET cfg  == call.ret
              size == call.arg
          IN  /\ cfg.NumDelegates = 24
              /\ Len(cfg.Delegates) = IF size < 24 THEN size ELSE 24
              /\ \A i \in 1..Len(cfg.Delegates) :
                    /\ cfg.Delegates[i].OperatorAddrStr = IdentityAddress(i - 1)
                    /\ cfg.Delegates[i].RewardAddrStr = cfg.Delegates[i].OperatorAddrStr
                    /\ cfg.Delegates[i].OperatorAddrStr \in DOMAIN cfg.InitBalanceMap
              /\ cfg.PacificBlockHeight = 0
              /\ g = cfg
    /\ (call.op = "IsPacific" /\ g.PacificBlockHeight = 0) => call.ret = TRUE

\* TestDefault has been called with more identities than delegates
C27_Witness ==
    /\ IsTestDefaultCall
    /\ call.arg > call.ret.NumDelegates
    /\ Cardinality(DOMAIN call.ret.InitBalanceMap) = call.arg

---------------------------------------------------------------------------
(* Claim C28: the default fork heights are in release order *)

\* the place of a fork height in the release order
ReleaseIndex(f) == CHOOSE i \in 1..Len(ForkFields) : ForkFields[i] = f

\* the gates of the forks released before the fork of gate `name`
EarlierGates(name) ==
    {n \in GateNames : ReleaseIndex(OwnField(n)) < ReleaseIndex(OwnField(name))}

\* the gates active at height h
ActiveGates(gen, h) == {n \in GateNames : Gate(n, gen, h)}

\* C28: the default fork heights are strictly increasing in release order;
\* a gate found active at a height has every earlier gate active at that
\* height; and the set of active gates only grows as the height grows.
C28_DefaultForksInReleaseOrder ==
    /\ [](\A i, j \in 1..Len(ForkFields) :
             i < j => g[ForkFields[i]] < g[ForkFields[j]])
    /\ [](IsGateCall /\ call.ret = TRUE =>
             \A n \in EarlierGates(call.op) : Gate(n, g, call.arg))
    /\ [][height' > height =>
             ActiveGates(g, height) \subseteq ActiveGates(g', height')]_vars

\* IsIceland found active at its own default height, where the later forks
\* are not yet active
C28_Witness ==
    /\ call.op = "IsIceland"
    /\ call.arg = 12289321
    /\ call.ret = TRUE
    /\ ~Gate("IsJutland", g, call.arg)

---------------------------------------------------------------------------
(* Claim C29: the first call consumes the one-shot transition *)

\* a step of New, TestDefault or Hash
IsLoadStep == call' # call

\* C29: when the calls come one after another and the first passes 0, the
\* Once is consumed by that call: every Timestamp() returns 0, and between
\* calls _genesisTs is 0 and the Once is done, whatever later calls pass; and
\* no step of New, TestDefault or Hash changes _genesisTs or _loadGenesisTs.
C29_FirstCallConsumesOnce ==
    /\ []((hist.sequential /\ hist.calls >= 1 /\ hist.first = Zero64) =>
             /\ \A i \in Reads : hist.reads[i].ret = Zero64
             /\ AllIdle => (genesisTs = Zero64 /\ loadGenesisTs.done))
    /\ [][IsLoadStep => (genesisTs' = genesisTs /\ loadGenesisTs' = loadGenesisTs)]_vars

\* the first call passed 0, a later one passed another value, a Genesis was
\* loaded and hashed, and a Timestamp() after all of that returned 0
C29_Witness ==
    /\ hist.sequential
    /\ AllIdle
    /\ hist.calls >= 2
    /\ hist.first = Zero64
    /\ hist.last # Zero64
    /\ call.op = "Hash"
    /\ \E i \in Reads : hist.reads[i].after >= 2 /\ hist.reads[i].ret = Zero64

---------------------------------------------------------------------------
(* Claim C30: the allowlist scan over entries of 3 bytes or more *)

\* entry v decodes to account a: as a native address when it starts with
\* io1, otherwise as a hex address
DecodesTo(v, a) ==
    IF SubSeq(v, 1, 3) = "io1" THEN IsNativeFormOf(v, a) ELSE IsHexFormOf(v, a)

\* list with its first two entries exchanged, and list with its first
\* entry moved to the end: every order of the entries is reached from any
\* other by these two moves, and the allowlists of the documents are all
\* the lists over their entries
Reorderings(list) ==
    IF Len(list) < 2 THEN {list} ELSE {Swap(list, 1, 2), Rotate(list, 1)}

\* IsDeployerWhitelisted was called with an allowlist whose entries all
\* have 3 bytes or more
IsLongEntriesCall ==
    /\ IsWhitelistCall
    /\ \A v \in Entries(g.ReplayDeployerWhitelist) : Len(v) >= 3

\* C30: with entries of 3 bytes or more, the call returns true exactly when
\* some entry decodes to the deployer; the same after any reordering of
\* the entries; and false for the empty allowlist.
C30_ScanPassesOverMalformedEntries ==
    IsLongEntriesCall =>
        LET list == g.ReplayDeployerWhitelist
        IN  /\ call.ret = Returns(\E v \in Entries(list) : DecodesTo(v, call.arg))
            /\ \A other \in Reorderings(list) :
                  IsDeployerWhitelisted([g EXCEPT !.ReplayDeployerWhitelist = other],
                                        call.arg) = call.ret
            /\ list = <<>> => call.ret = Returns(FALSE)

\* the deployer is found in an entry that follows a malformed io1 entry
C30_Witness ==
    /\ IsLongEntriesCall
    /\ call.arg = "3fab184622dc19b6109349b94811493bf2a45362"
    /\ g.ReplayDeployerWhitelist =
          <<"io1bad", "0x3fab184622dc19b6109349b94811493bf2a45362">>
    /\ call.ret = Returns(TRUE)

=============================================================================
